---- MODULE Spec2Model ----
(***************************************************************************)
(* NetBox reports and custom scripts of the operations inventory:          *)
(* the CreateManagementInterface custom script (the only code that writes  *)
(* NetBox records) and the reconciliation reports, which read NetBox       *)
(* records and emit log entries.                                           *)
(*                                                                         *)
(* NetBox itself (the ORM, Prefix.get_available_ips, the Report and Script *)
(* base classes) is the host: its calls are modelled by what NetBox        *)
(* documents them to do, on the tables below.                              *)
(***************************************************************************)
EXTENDS Integers, Sequences, FiniteSets, TLC

VARIABLES
    devices,      \* dcim.Device table: pk -> record
    interfaces,   \* dcim.Interface table: sequence of records, pk = index
    ipaddresses,  \* ipam.IPAddress table: sequence of records, pk = index
    customfieldvalues, \* extras.CustomFieldValue table: sequence, pk = index
    cables,       \* dcim.Cable table: sequence of records, pk = index
    ports,        \* dcim.ConsolePort, ConsoleServerPort, PowerPort and
                  \* PowerOutlet tables: one sequence, each record with its kind
    inventoryitems,  \* dcim.InventoryItem table: sequence, pk = index
    virtualmachines, \* virtualization.VirtualMachine table: sequence
    lastrun,      \* the last execution: what ran, its log, its return value
    nruns,        \* number of executions so far
    running       \* the runs of the script in flight, each with what it
                  \* has read and computed and not yet saved

vars == <<devices, interfaces, ipaddresses, customfieldvalues, cables,
          ports, inventoryitems, virtualmachines, lastrun, nruns, running>>

\* The NetBox tables, as opposed to the record of what ran.
tables == <<devices, interfaces, ipaddresses, customfieldvalues, cables,
            ports, inventoryitems, virtualmachines>>

\* Python's None, and a NULL column.
None == "None"

\* ------------------------------------------------------------------------
\* Bounds of the model
\* ------------------------------------------------------------------------

\* Executions (script runs, report test methods) per behaviour.
MaxRuns == 3

\* Runs of the script in flight at the same time.
MaxInFlight == 2

\* Devices in the tables the reports are run on.
NumDevices == 3

\* CustomFieldValue rows of other fields that precede the purchase dates.
MaxOtherFields == 2
NumCables == 3

\* ------------------------------------------------------------------------
\* Addresses and networks (ipaddress / netaddr)
\* ------------------------------------------------------------------------

RECURSIVE Pow2(_)
Pow2(n) == IF n = 0 THEN 1 ELSE 2 * Pow2(n - 1)

\* A dotted quad as the 32-bit number it denotes.
IPv4(a, b, c, d) == ((a * 256 + b) * 256 + c) * 256 + d

\* A network [first, prefixlen]: its broadcast (last) address.
NetLast(first, prefixlen) == first + Pow2(32 - prefixlen) - 1

\* ipaddress: `address in network`.
InNet(address, net) ==
    /\ net.first <= address
    /\ address <= NetLast(net.first, net.prefixlen)

\* ipaddress.ip_network(p).subnets(new_prefix=n) raises
\* ValueError('new prefix must be longer') when n is shorter than the
\* network's own prefix length.
subnets_raises(net, new_prefix) == new_prefix < net.prefixlen

\* ipaddress.ip_network(p).subnets(new_prefix=n) as a list, when it does not
\* raise: the 2^(n - prefixlen) networks of length n, in ascending order.
subnets(net, new_prefix) ==
    [i \in 1..Pow2(new_prefix - net.prefixlen) |->
        [first |-> net.first + (i - 1) * Pow2(32 - new_prefix),
         prefixlen |-> new_prefix]]

\* ------------------------------------------------------------------------
\* The ipam.Prefix table (never written by this repository)
\* ------------------------------------------------------------------------

Prefixes ==
    { [pk |-> 1, prefix |-> [first |-> IPv4(10, 0, 0, 0), prefixlen |-> 23],
       site |-> "eqiad", role |-> "management", tenant |-> None,
       vrf |-> None, family |-> 4, is_pool |-> FALSE],
      [pk |-> 2, prefix |-> [first |-> IPv4(10, 0, 16, 0), prefixlen |-> 24],
       site |-> "codfw", role |-> "management", tenant |-> "fr-tech",
       vrf |-> None, family |-> 4, is_pool |-> FALSE],
      [pk |-> 3, prefix |-> [first |-> IPv4(10, 0, 32, 0), prefixlen |-> 30],
       site |-> "esams", role |-> "management", tenant |-> None,
       vrf |-> None, family |-> 4, is_pool |-> FALSE],
      [pk |-> 4, prefix |-> [first |-> IPv4(10, 0, 48, 0), prefixlen |-> 30],
       site |-> "ulsfo", role |-> "management", tenant |-> None,
       vrf |-> None, family |-> 4, is_pool |-> FALSE],
      [pk |-> 5, prefix |-> [first |-> IPv4(10, 0, 48, 4), prefixlen |-> 30],
       site |-> "ulsfo", role |-> "management", tenant |-> None,
       vrf |-> None, family |-> 4, is_pool |-> FALSE],
      [pk |-> 6, prefix |-> [first |-> IPv4(10, 0, 64, 0), prefixlen |-> 23],
       site |-> "eqsin", role |-> "management", tenant |-> None,
       vrf |-> "mgmt-vrf", family |-> 4, is_pool |-> FALSE],
      [pk |-> 7, prefix |-> [first |-> IPv4(10, 0, 80, 0), prefixlen |-> 24],
       site |-> "eqiad", role |-> "production", tenant |-> "ripe",
       vrf |-> None, family |-> 4, is_pool |-> FALSE] }

\* The addresses of the IPAddress records.
RecordedIPs(ips) == {ips[i].address.ip : i \in DOMAIN ips}

\* Prefix.get_available_ips(): the addresses of the prefix that have no
\* IPAddress record, less the network and broadcast addresses unless the
\* prefix is a pool or a point-to-point /31; a netaddr.IPSet, which iterates
\* in ascending order.
get_available_ips(prefix, ips) ==
    LET last == NetLast(prefix.prefix.first, prefix.prefix.prefixlen)
        available_ips == (prefix.prefix.first..last) \ RecordedIPs(ips)
    IN  IF prefix.is_pool \/ prefix.prefix.prefixlen = 31
        THEN available_ips
        ELSE available_ips \ {prefix.prefix.first, last}

\* ------------------------------------------------------------------------
\* customscripts/interface_automation.py: CreateManagementInterface
\* ------------------------------------------------------------------------

\* A log entry of a script or report: level, the object it is about (a pk,
\* or 0 for None) and the message as its text and arguments.
Entry(level, obj, message) == [level |-> level, obj |-> obj, message |-> message]

\* The queryset of the `device` ObjectVar: server-role devices.
device_queryset(devs) == {d \in DOMAIN devs : devs[d].device_role = "server"}

\* A plausible slip of line 28: the tenant is left out of the lookup.
management_prefixes_any_tenant(device) ==
    {p \in Prefixes : p.site = device.site /\ p.role = "management"}

\* Prefix.objects.get(site=device.site, role__slug="management",
\* tenant=device.tenant): the matching rows (get() raises ObjectDoesNotExist
\* on none and MultipleObjectsReturned on several).
management_prefixes(device) ==
    {p \in Prefixes : /\ p.site = device.site
                      /\ p.role = "management"
                      /\ p.tenant = device.tenant}

\* `device.tenant and device.tenant.slug == 'fr-tech'`
is_frack(device) == device.tenant # None /\ device.tenant = "fr-tech"

\* A plausible slip of lines 36-41: the skipping is disabled for every tenant.
zeroth_net_disabled(device, prefix) == <<>>

\* A plausible slip of lines 36-41: the skipping is applied to every tenant.
zeroth_net_always(device, prefix) == <<subnets(prefix.prefix, 24)[1]>>

\* Lines 36-41, when line 41 does not raise: None (<<>>) for a fr-tech
\* device, else <<the first /24 of the prefix>>.
zeroth_net(device, prefix) ==
    IF is_frack(device)
    THEN <<>>
    ELSE <<subnets(prefix.prefix, 24)[1]>>

\* Line 41 raises ValueError for a prefix longer than /24.
zeroth_net_raises(device, prefix) ==
    ~is_frack(device) /\ subnets_raises(prefix.prefix, 24)

\* Lines 44-49 on the addresses lo..hi, which the iterator yields in
\* ascending order: the value of `ip` when the loop ends, that is the first
\* available address that passes the test of line 46, <<>> (None) when none
\* does.  The range is searched lower half first.
RECURSIVE allocation_loop(_, _, _, _)
allocation_loop(lo, hi, available_ips, net) ==
    IF lo > hi
    THEN <<>>
    ELSE IF lo = hi
    THEN IF /\ lo \in available_ips
            /\ (net = <<>> \/ ~InNet(lo, net[1]))
         THEN <<lo>>
         ELSE <<>>
    ELSE LET mid == (lo + hi) \div 2
             ip == allocation_loop(lo, mid, available_ips, net)
         IN  IF ip # <<>>
             THEN ip
             ELSE allocation_loop(mid + 1, hi, available_ips, net)

\* A plausible slip of lines 44-49: the candidate is not looked up among the
\* available addresses.
pick_ip_unchecked(prefix, available_ips, net) ==
    LET last == NetLast(prefix.prefix.first, prefix.prefix.prefixlen)
    IN  allocation_loop(prefix.prefix.first + 1, last - 1,
                        prefix.prefix.first..last, net)

\* Lines 43-49: `ip` after the loop over iter(prefix.get_available_ips()).
pick_ip(prefix, available_ips, net) ==
    allocation_loop(prefix.prefix.first,
                    NetLast(prefix.prefix.first, prefix.prefix.prefixlen),
                    available_ips, net)

\* `if ip:` a netaddr.IPAddress is false only for the address 0.
truthy(ip) == ip # <<>> /\ ip[1] # 0

\* The IPAddress record as first saved (lines 53-59).
new_ipaddress(ip, prefix) ==
    [address |-> [ip |-> ip, prefixlen |-> prefix.prefix.prefixlen],
     status |-> "IPADDRESS_STATUS_ACTIVE",
     family |-> prefix.family,
     vrf |-> None,
     interface |-> 0,
     tenant |-> None]

\* _add_ip_to_interface(device, interface) on the IPAddress table `ips`: the
\* table afterwards, the entries logged, the value returned (<<>> when the
\* method raised) and the exception raised (None when it returned).
\* `interface` is the pk of the interface.
add_ip_to_interface(device, interface, ips) ==
    LET found == management_prefixes(device)
    IN  IF found = {}
        THEN LET message == <<"Can't find prefix for site {} on device {}",
                              device.site, device.name>>
             IN  [ipaddresses |-> ips,
                  log |-> <<Entry("failure", 0, message)>>,
                  output |-> message,
                  raised |-> None]
        ELSE IF Cardinality(found) > 1
        THEN [ipaddresses |-> ips, log |-> <<>>, output |-> <<>>,
              raised |-> "MultipleObjectsReturned"]
        ELSE
        LET prefix == CHOOSE p \in found : TRUE
            selecting == Entry("info", 0,
                               <<"Selecting address from network {}", prefix.pk>>)
            available_ips == get_available_ips(prefix, ips)
        IN  IF zeroth_net_raises(device, prefix)
            THEN [ipaddresses |-> ips, log |-> <<selecting>>, output |-> <<>>,
                  raised |-> "ValueError"]
            ELSE
            LET ip == pick_ip(prefix, available_ips, zeroth_net(device, prefix))
            IN  IF truthy(ip)
                THEN LET newip == new_ipaddress(ip[1], prefix)
                     IN  IF prefix.vrf # None
                         \* line 60 assigns a pk to the vrf relation, which
                         \* Django refuses with ValueError; the save of line
                         \* 59 has been made
                         THEN [ipaddresses |-> Append(ips, newip),
                               log |-> <<selecting>>, output |-> <<>>,
                               raised |-> "ValueError"]
                         ELSE LET saved == [newip EXCEPT
                                               !.interface = interface,
                                               !.tenant = device.tenant]
                                  message == <<"Created ip {} for mgmt on device {}",
                                               ip[1], device.name>>
                              IN  [ipaddresses |-> Append(ips, saved),
                                   log |-> <<selecting,
                                             Entry("success", 0, message)>>,
                                   output |-> message,
                                   raised |-> None]
                ELSE LET message == <<"Not enough IPs to allocate one on prefix {}",
                                      prefix.pk>>
                     IN  [ipaddresses |-> ips,
                          log |-> <<selecting, Entry("failure", 0, message)>>,
                          output |-> message,
                          raised |-> None]

\* device.interfaces.get(name='mgmt'): the pks of the matching rows.
mgmt_interfaces(d, ifs) ==
    {i \in DOMAIN ifs : ifs[i].device = d /\ ifs[i].name = "mgmt"}

\* A plausible slip of lines 79-85: the lookup is by another name, so an
\* existing mgmt interface is never found.
mgmt_lookup_misnamed(d, ifs) ==
    {i \in DOMAIN ifs : ifs[i].device = d /\ ifs[i].name = "mgmt0"}

\* Lines 79-80: the rows device.interfaces.get(name='mgmt') chooses from.
mgmt_lookup(d, ifs) == mgmt_interfaces(d, ifs)

\* run(data): the tables afterwards, the log, the return value, the exception.
run(d, add_ip, devs, ifs, ips) ==
    LET device == devs[d]
        existing == mgmt_lookup(d, ifs)
        ifs2 == IF existing # {}
                THEN ifs
                ELSE Append(ifs, [device |-> d, name |-> "mgmt",
                                  mgmt_only |-> TRUE,
                                  type |-> "IFACE_TYPE_1GE_FIXED"])
        mgmt == IF existing # {}
                THEN CHOOSE i \in existing : TRUE
                ELSE Len(ifs2)
        log0 == IF existing # {}
                THEN <<Entry("info", 0,
                             <<"mgmt already exists for device {}", device.name>>)>>
                ELSE <<>>
    IN  IF add_ip
        THEN LET r == add_ip_to_interface(device, mgmt, ips)
             IN  [interfaces |-> ifs2,
                  ipaddresses |-> r.ipaddresses,
                  log |-> log0 \o r.log,
                  output |-> r.output,
                  raised |-> r.raised]
        ELSE LET message == <<"Created mgmt on device {}", device.name>>
             IN  [interfaces |-> ifs2,
                  ipaddresses |-> ips,
                  log |-> Append(log0, Entry("success", 0, message)),
                  output |-> message,
                  raised |-> None]

\* One execution of the script, on device d with the add_ip checkbox.
RunScript(d, add_ip) ==
    /\ nruns < MaxRuns
    /\ d \in device_queryset(devices)
    /\ LET r == run(d, add_ip, devices, interfaces, ipaddresses)
       IN  /\ interfaces' = r.interfaces
           /\ ipaddresses' = r.ipaddresses
           /\ lastrun' = [kind |-> "script", name |-> "CreateManagementInterface",
                          device |-> d, add_ip |-> add_ip, log |-> r.log,
                          output |-> r.output, raised |-> r.raised]
    /\ nruns' = nruns + 1
    /\ UNCHANGED running
    /\ UNCHANGED <<devices, customfieldvalues, cables, ports, inventoryitems,
                   virtualmachines>>

CreateManagementInterface ==
    \E d \in DOMAIN devices, add_ip \in BOOLEAN : RunScript(d, add_ip)

\* ------------------------------------------------------------------------
\* The tables the script runs on
\* ------------------------------------------------------------------------

\* A dcim.Device row; the rows below override what they need.
Device(name, site, tenant, device_role, status, serial) ==
    [name |-> name, site |-> site, tenant |-> tenant,
     device_role |-> device_role, status |-> status, serial |-> serial]

\* Devices the script is run on: two servers on the eqiad management prefix,
\* a fr-tech server, a server whose prefix is longer than /24, a server of a
\* tenant without management prefix, a server at a site with two management
\* prefixes, a server whose prefix is in a VRF, and a switch (not in the
\* ObjectVar's queryset).
ScriptDevices ==
    <<Device("db1001", "eqiad", None, "server", "active", "S1"),
      Device("db1002", "eqiad", None, "server", "active", "S2"),
      Device("frdb2001", "codfw", "fr-tech", "server", "active", "S3"),
      Device("cp3001", "esams", None, "server", "active", "S4"),
      Device("ripe-atlas-eqiad", "eqiad", "ripe", "server", "active", "S5"),
      Device("cp4001", "ulsfo", None, "server", "active", "S6"),
      Device("cp5001", "eqsin", None, "server", "active", "S7"),
      Device("asw-a1-eqiad", "eqiad", None, "asw", "active", "S8")>>

\* IPAddress rows that exist before the first run: one per address of
\* lo..hi that is in `taken`, in ascending order.
RECURSIVE existing_ips(_, _, _, _)
existing_ips(lo, hi, taken, prefixlen) ==
    IF lo > hi
    THEN <<>>
    ELSE IF lo = hi
    THEN IF lo \in taken
         THEN <<[address |-> [ip |-> lo, prefixlen |-> prefixlen],
                 status |-> "IPADDRESS_STATUS_ACTIVE", family |-> 4,
                 vrf |-> None, interface |-> 0, tenant |-> None]>>
         ELSE <<>>
    ELSE LET mid == (lo + hi) \div 2
         IN  existing_ips(lo, mid, taken, prefixlen)
             \o existing_ips(mid + 1, hi, taken, prefixlen)

\* The states of the address plan the runs start from: the addresses that
\* have a record, per prefix.  In the first the second /24 of the eqiad
\* prefix and the two other prefixes are full; in the second the second /24 of
\* eqiad has a single address left (10.0.1.0); in the first two the first /24
\* of eqiad has no record at all; in the third both /24 of
\* eqiad are partly used and the fr-tech prefix has its first address free.
AddressPlans ==
    << [eqiad |-> IPv4(10, 0, 1, 0)..IPv4(10, 0, 1, 254),
        frack |-> IPv4(10, 0, 16, 1)..IPv4(10, 0, 16, 254),
        esams |-> IPv4(10, 0, 32, 1)..IPv4(10, 0, 32, 2)],
       [eqiad |-> IPv4(10, 0, 1, 1)..IPv4(10, 0, 1, 254),
        frack |-> IPv4(10, 0, 16, 1)..IPv4(10, 0, 16, 6),
        esams |-> {IPv4(10, 0, 32, 1)}],
       [eqiad |-> (IPv4(10, 0, 0, 1)..IPv4(10, 0, 0, 3))
                  \cup (IPv4(10, 0, 1, 0)..IPv4(10, 0, 1, 8))
                  \cup {IPv4(10, 0, 1, 10)},
        frack |-> {IPv4(10, 0, 16, 2), IPv4(10, 0, 16, 3)},
        esams |-> {}] >>

ExistingIPs(plan) ==
    existing_ips(IPv4(10, 0, 0, 0), IPv4(10, 0, 1, 255), plan.eqiad, 23)
    \o existing_ips(IPv4(10, 0, 16, 0), IPv4(10, 0, 16, 255), plan.frack, 24)
    \o existing_ips(IPv4(10, 0, 32, 0), IPv4(10, 0, 32, 3), plan.esams, 30)

\* Interface rows that exist before the first run: db1002 already has its
\* mgmt interface, db1001 only a production interface.
ExistingInterfaces ==
    << [device |-> 1, name |-> "eth0", mgmt_only |-> FALSE,
        type |-> "IFACE_TYPE_1GE_FIXED"],
       [device |-> 2, name |-> "mgmt", mgmt_only |-> TRUE,
        type |-> "IFACE_TYPE_1GE_FIXED"] >>

\* Nothing has run yet.
NoRun ==
    [kind |-> "none", name |-> "", device |-> 0, add_ip |-> FALSE,
     log |-> <<>>, output |-> <<>>, raised |-> None]

Init ==
    /\ devices = ScriptDevices
    /\ interfaces = ExistingInterfaces
    /\ \E i \in DOMAIN AddressPlans : ipaddresses = ExistingIPs(AddressPlans[i])
    /\ customfieldvalues = <<>>
    /\ cables = <<>>
    /\ ports = <<>>
    /\ inventoryitems = <<>>
    /\ virtualmachines = <<>>
    /\ lastrun = NoRun
    /\ nruns = 0
    /\ running = <<>>

Next == CreateManagementInterface

Spec == Init /\ [][Next]_vars

\* ------------------------------------------------------------------------
\* Runs of the script that interleave.  Nothing in the script takes a lock:
\* a run reads the available addresses of the prefix (line 34) and saves
\* its IPAddress later (lines 59 and 64), and NetBox serves each request in
\* a worker of its own, so another run can read in between.
\* ------------------------------------------------------------------------

\* Lines 75-49 of a run on device d: the mgmt interface is looked up or
\* created and saved, the prefix is found, its available addresses are
\* read and the loop picks one.  What follows in the run depends on the
\* tables only through what has been read here, so the run carries its
\* outcome on these tables: the record it is about to save, its log, its
\* return value, its exception.
RunReadsAvailableIPs(d, add_ip) ==
    /\ nruns < MaxRuns
    /\ Len(running) < MaxInFlight
    /\ d \in device_queryset(devices)
    /\ LET r == run(d, add_ip, devices, interfaces, ipaddresses)
       IN  /\ interfaces' = r.interfaces
           /\ running' = Append(running,
                  [device |-> d, add_ip |-> add_ip,
                   newips |-> SubSeq(r.ipaddresses, Len(ipaddresses) + 1,
                                     Len(r.ipaddresses)),
                   log |-> r.log, output |-> r.output, raised |-> r.raised])
    /\ nruns' = nruns + 1
    /\ UNCHANGED <<devices, ipaddresses, customfieldvalues, cables, ports,
                   inventoryitems, virtualmachines, lastrun>>

\* Lines 51-73 of the run in flight at position i: the IPAddress it made
\* is saved, the run logs and returns.
RunSavesNewIP(i) ==
    /\ i \in DOMAIN running
    /\ ipaddresses' = ipaddresses \o running[i].newips
    /\ lastrun' = [kind |-> "script", name |-> "CreateManagementInterface",
                   device |-> running[i].device, add_ip |-> running[i].add_ip,
                   log |-> running[i].log, output |-> running[i].output,
                   raised |-> running[i].raised]
    /\ running' = SubSeq(running, 1, i - 1) \o SubSeq(running, i + 1, Len(running))
    /\ UNCHANGED <<devices, interfaces, customfieldvalues, cables, ports,
                   inventoryitems, virtualmachines, nruns>>

\* The runs start on the third address plan, in which the eqiad and the
\* fr-tech prefixes have addresses left.
InitInterleaved ==
    /\ devices = ScriptDevices
    /\ interfaces = ExistingInterfaces
    /\ ipaddresses = ExistingIPs(AddressPlans[3])
    /\ customfieldvalues = <<>>
    /\ cables = <<>>
    /\ ports = <<>>
    /\ inventoryitems = <<>>
    /\ virtualmachines = <<>>
    /\ lastrun = NoRun
    /\ nruns = 0
    /\ running = <<>>

NextInterleaved ==
    \/ \E d \in DOMAIN devices, add_ip \in BOOLEAN : RunReadsAvailableIPs(d, add_ip)
    \/ \E i \in 1..MaxInFlight : RunSavesNewIP(i)

SpecInterleaved == InitInterleaved /\ [][NextInterleaved]_vars

\* ------------------------------------------------------------------------
\* Reports: what they share
\* ------------------------------------------------------------------------

\* The elements of a sequence.
Range(seq) == {seq[i] : i \in DOMAIN seq}

\* The pks of a table, in the order a queryset yields them.
pks(table) == [pk \in 1..Len(table) |-> pk]

\* The execution record of a report's test method.
ReportRun(name, log) ==
    [kind |-> "report", name |-> name, device |-> 0, add_ip |-> FALSE,
     log |-> log, output |-> <<>>, raised |-> None]

\* A plausible slip of a test method: it brings the planned devices it has
\* looked at into service and saves them.
ReportedAndSaved(name, log) ==
    /\ nruns < MaxRuns
    /\ lastrun' = ReportRun(name, log)
    /\ nruns' = nruns + 1
    /\ UNCHANGED running
    /\ devices' = [d \in DOMAIN devices |->
                     [devices[d] EXCEPT
                        !.status = IF @ = "planned" THEN "active" ELSE @]]
    /\ UNCHANGED <<interfaces, ipaddresses, customfieldvalues, cables, ports,
                   inventoryitems, virtualmachines>>

\* A test method has run: it leaves its log and changes no table.
Reported(name, log) ==
    /\ nruns < MaxRuns
    /\ lastrun' = ReportRun(name, log)
    /\ nruns' = nruns + 1
    /\ UNCHANGED running
    /\ UNCHANGED tables

\* ------------------------------------------------------------------------
\* reports/oldhardware.py: OldHardwareReport
\* ------------------------------------------------------------------------

\* datetime.datetime.today().date(), as a day number.
Today == 365 * 50

\* Line 14.
OLDHW_EXCLUDE_ROLES == {"cablemgmt", "storagebin"}

\* Lines 32-34: devquery, the pks in queryset order.
oldhw_devquery(devs) ==
    SelectSeq(pks(devs),
              LAMBDA d : /\ devs[d].status \notin {"inventory", "offline"}
                         /\ devs[d].device_role \notin OLDHW_EXCLUDE_ROLES)

\* Lines 51-53: round((today.date() - purchase_date).days / 365.25, 1), in
\* tenths of a year.  days * 10 / 365.25 is never half-way between two
\* integers, so rounding is the floor of that plus one half.
hardware_age(today, purchase_date) ==
    ((today - purchase_date) * 80 + 1461) \div 2922

\* Line 59: sorted(results, reverse=True, key=lambda item: item[0]), a stable
\* sort: an item goes after every item whose age is not smaller.
RECURSIVE sorted_by_age(_)
sorted_by_age(results) ==
    IF results = <<>>
    THEN <<>>
    ELSE LET init == sorted_by_age(SubSeq(results, 1, Len(results) - 1))
             item == results[Len(results)]
             before == SelectSeq(init, LAMBDA r : r.age >= item.age)
             after == SelectSeq(init, LAMBDA r : r.age < item.age)
         IN  before \o <<item>> \o after

\* Lines 44-57 from the i-th device of devquery on: the failures logged, the
\* devices counted and the results kept.  cfs is the dict of lines 37-42,
\* keyed by CustomFieldValue pk.
RECURSIVE oldhw_first_loop(_, _, _, _, _)
oldhw_first_loop(devquery, i, cfs, cfvs, today) ==
    IF i > Len(devquery)
    THEN [log |-> <<>>, success_count |-> 0, results |-> <<>>]
    ELSE LET device == devquery[i]
             rest == oldhw_first_loop(devquery, i + 1, cfs, cfvs, today)
         IN  IF device \notin cfs
             THEN [rest EXCEPT !.log = <<Entry("failure", device,
                                               <<"null purchase date.">>)>> \o @]
             ELSE LET purchase_date == cfvs[device].value
                      age == hardware_age(today, purchase_date)
                  IN  IF age < 45
                      THEN [rest EXCEPT !.success_count = @ + 1]
                      ELSE [rest EXCEPT !.results =
                               <<[age |-> age, purchase_date |-> purchase_date,
                                  device |-> device]>> \o @]

\* Lines 59-65: the entry of one result.
oldhw_result_entry(res) ==
    IF res.age >= 50
    THEN Entry("failure", res.device,
               <<"old device with purchase date: {} (age: {:02.1f}y)",
                 res.purchase_date, res.age>>)
    ELSE Entry("warning", res.device,
               <<"almost old device with purchase date: {} (age: {:02.1f}y)",
                 res.purchase_date, res.age>>)

\* test_hardware_age: its log.
test_hardware_age(devs, cfvs, today) ==
    LET devquery == oldhw_devquery(devs)
        cf_ids == {c \in DOMAIN cfvs : /\ cfvs[c].obj_type = "device"
                                       /\ cfvs[c].obj_id \in Range(devquery)}
        cfs == {c \in cf_ids : cfvs[c].field = "purchase_date"}
        first == oldhw_first_loop(devquery, 1, cfs, cfvs, today)
        results == sorted_by_age(first.results)
    IN  first.log
        \o [i \in DOMAIN results |-> oldhw_result_entry(results[i])]
        \o <<Entry("success", 0,
                   <<"{} devices with ages less than 4.5 years.",
                     first.success_count>>)>>

OldHardwareReport_test_hardware_age ==
    Reported("OldHardwareReport.test_hardware_age",
             test_hardware_age(devices, customfieldvalues, Today))

\* The tables the report is run on: NumDevices devices, each in use or
\* offline, a server or a cable manager, bought 4.4, 4.5, 4.9 or 5.0 years
\* ago or without purchase date.  The CustomFieldValue table holds the
\* procurement tickets of the first `others` devices, then the purchase
\* dates in device order.
OldHardwareProfiles ==
    { Device("a", "eqiad", None, "server", "active", "S"),
      Device("a", "eqiad", None, "server", "offline", "S"),
      Device("a", "eqiad", None, "cablemgmt", "active", "S") }

PurchaseDates == {Today - 1625, Today - 1626, Today - 1807, Today - 1808}

RECURSIVE purchase_date_rows(_, _)
purchase_date_rows(dates, d) ==
    IF d > Len(dates)
    THEN <<>>
    ELSE (IF dates[d] = 0
          THEN <<>>
          ELSE <<[field |-> "purchase_date", obj_type |-> "device",
                  obj_id |-> d, value |-> dates[d]]>>)
         \o purchase_date_rows(dates, d + 1)

InitOldHardware ==
    /\ devices \in [1..NumDevices -> OldHardwareProfiles]
    /\ \E dates \in [1..NumDevices -> PurchaseDates \cup {0}],
          others \in 0..MaxOtherFields :
          customfieldvalues =
              [d \in 1..others |->
                  [field |-> "ticket", obj_type |-> "device",
                   obj_id |-> IF d <= NumDevices THEN d ELSE NumDevices,
                   value |-> 0]]
              \o purchase_date_rows(dates, 1)
    /\ interfaces = <<>>
    /\ ipaddresses = <<>>
    /\ cables = <<>>
    /\ ports = <<>>
    /\ inventoryitems = <<>>
    /\ virtualmachines = <<>>
    /\ lastrun = NoRun
    /\ nruns = 0
    /\ running = <<>>

NextOldHardware == OldHardwareReport_test_hardware_age

SpecOldHardware == InitOldHardware /\ [][NextOldHardware]_vars

\* ------------------------------------------------------------------------
\* reports/coherence.py: Coherence
\* ------------------------------------------------------------------------

\* Lines 21-22.
SITE_BLACKLIST == {"esams", "knams"}
DEVICE_ROLE_BLACKLIST == {"cablemgmt", "storagebin", "optical-device"}

\* _get_devices_query(): the pks, in queryset order.
get_devices_query(devs) ==
    SelectSeq(pks(devs), LAMBDA d : devs[d].site \notin SITE_BLACKLIST)

\* The database's order of serial numbers (order_by("serial")): the rank of
\* a serial.
serial_rank(serial) ==
    CASE serial = "" -> 0
      [] serial = "A" -> 1
      [] serial = "B" -> 2
      [] OTHER -> 3

\* A plausible slip of line 96: count__gt=0.
duplicate_serials_gt0(devs) ==
    {devs[d].serial :
        d \in {d \in Range(get_devices_query(devs)) :
                  /\ devs[d].device_role \notin DEVICE_ROLE_BLACKLIST
                  /\ devs[d].status \notin {"decommissioning", "offline"}
                  /\ devs[d].serial # ""
                  /\ devs[d].serial # None}}

\* Lines 86-97: dups, the serials that more than one of the devices left by
\* the excludes carry.
duplicate_serials(devs) ==
    LET counted == {d \in Range(get_devices_query(devs)) :
                       /\ devs[d].device_role \notin DEVICE_ROLE_BLACKLIST
                       /\ devs[d].status \notin {"decommissioning", "offline"}
                       /\ devs[d].serial # ""
                       /\ devs[d].serial # None}
        count(serial) == Cardinality({d \in counted : devs[d].serial = serial})
    IN  {devs[d].serial : d \in {d \in counted : count(devs[d].serial) > 1}}

\* Lines 100-105: the devices the failures are about.
duplicate_serial_devices(devs, dups) ==
    {d \in Range(get_devices_query(devs)) :
        /\ devs[d].status \notin {"decommissioning", "offline"}
        /\ devs[d].serial \in dups}

\* test_duplicate_serials: the logs it can leave.  order_by("serial") fixes
\* the order of the failures up to the order among devices of one serial,
\* which the database is free to choose.
test_duplicate_serials(devs) ==
    LET dups == duplicate_serials(devs)
        flagged == duplicate_serial_devices(devs, dups)
        orders == {o \in [1..Cardinality(flagged) -> flagged] :
                      /\ \A i, j \in DOMAIN o : i # j => o[i] # o[j]
                      /\ \A i, j \in DOMAIN o :
                            i < j => serial_rank(devs[o[i]].serial)
                                     <= serial_rank(devs[o[j]].serial)}
    IN  IF dups # {}
        THEN {[i \in DOMAIN o |->
                 Entry("failure", o[i],
                       <<"duplicate serial: {}", devs[o[i]].serial>>)] :
              o \in orders}
        ELSE {<<Entry("success", 0, <<"No duplicate serials found">>)>>}

Coherence_test_duplicate_serials ==
    \E log \in test_duplicate_serials(devices) :
       Reported("Coherence.test_duplicate_serials", log)

\* The tables the report is run on: NumDevices devices, each one of these.
CoherenceProfiles ==
    { Device("a", "eqiad", None, "server", "active", "A"),
      Device("a", "eqiad", None, "server", "active", "B"),
      Device("a", "eqiad", None, "server", "active", ""),
      Device("a", "eqiad", None, "server", "active", None),
      Device("a", "esams", None, "server", "active", "A"),
      Device("a", "eqiad", None, "cablemgmt", "active", "A"),
      Device("a", "eqiad", None, "server", "offline", "A"),
      Device("a", "eqiad", None, "server", "decommissioning", "B") }

InitCoherence ==
    /\ devices \in [1..NumDevices -> CoherenceProfiles]
    /\ customfieldvalues = <<>>
    /\ interfaces = <<>>
    /\ ipaddresses = <<>>
    /\ cables = <<>>
    /\ ports = <<>>
    /\ inventoryitems = <<>>
    /\ virtualmachines = <<>>
    /\ lastrun = NoRun
    /\ nruns = 0
    /\ running = <<>>

NextCoherence == Coherence_test_duplicate_serials

SpecCoherence == InitCoherence /\ [][NextCoherence]_vars

\* ------------------------------------------------------------------------
\* reports/cables.py: Cables
\* ------------------------------------------------------------------------

\* A label is the tuple of its characters; a NULL label is NullLabel.
NullLabel == <<None>>

RECURSIVE lstrip(_)
lstrip(s) == IF s # <<>> /\ Head(s) = " " THEN lstrip(Tail(s)) ELSE s

RECURSIVE rstrip(_)
rstrip(s) ==
    IF s # <<>> /\ s[Len(s)] = " " THEN rstrip(SubSeq(s, 1, Len(s) - 1)) ELSE s

\* A plausible slip of lines 121-124: the label is used as stored.
strip_identity(s) == s

\* str.strip(): the label without its leading and trailing blanks.
strip(s) == rstrip(lstrip(s))

\* _get_site_slug_for_cable (lines 99-110).  termination_a.site is read
\* only for a circuit termination, termination_a.device only otherwise.
get_site_slug_for_cable(cable, devs) ==
    IF cable.termination_a_type = "circuit termination"
       /\ cable.termination_a.site # None
    THEN cable.termination_a.site
    ELSE IF cable.termination_a.device # 0
            /\ devs[cable.termination_a.device].site # None
         THEN devs[cable.termination_a.device].site
         ELSE "none"

\* Lines 116-119: the cables the loop goes over, by pk.
labelled_cables(cbls) ==
    SelectSeq(pks(cbls),
              LAMBDA c : /\ cbls[c].label # NullLabel
                         /\ cbls[c].label # <<>>
                         /\ cbls[c].termination_a_id # 0
                         /\ cbls[c].termination_b_id # 0)

\* Lines 114-124: labelcounts after the first n cables of the queryset, as
\* the sequence of its items in insertion order.
RECURSIVE labelcounts(_, _, _, _)
labelcounts(qs, n, cbls, devs) ==
    IF n = 0 THEN <<>>
    ELSE LET before == labelcounts(qs, n - 1, cbls, devs)
             cable == qs[n]
             key == <<strip(cbls[cable].label),
                      get_site_slug_for_cable(cbls[cable], devs)>>
             at == {j \in DOMAIN before : before[j].key = key}
         IN  IF strip(cbls[cable].label) = <<>> THEN before
             ELSE IF at = {}
                  THEN Append(before, [key |-> key, cables |-> <<cable>>])
                  ELSE [j \in DOMAIN before |->
                          IF j \in at
                          THEN [before[j] EXCEPT !.cables = Append(@, cable)]
                          ELSE before[j]]

\* Lines 126-132: the failures of the first n items, and the success count.
RECURSIVE duplicate_label_failures(_, _)
duplicate_label_failures(items, n) ==
    IF n = 0 THEN <<>>
    ELSE duplicate_label_failures(items, n - 1) \o
         ( IF Len(items[n].cables) > 1
           THEN [k \in DOMAIN items[n].cables |->
                   Entry("failure", items[n].cables[k],
                         <<"duplicate cable label (site {})", items[n].key[2]>>)]
           ELSE <<>> )

test_duplicate_cable_label(cbls, devs) ==
    LET qs == labelled_cables(cbls)
        items == labelcounts(qs, Len(qs), cbls, devs)
        success == Cardinality({j \in DOMAIN items : Len(items[j].cables) <= 1})
    IN  Append(duplicate_label_failures(items, Len(items)),
               Entry("success", 0, <<"{} non-duplicate cable labels.", success>>))

Cables_test_duplicate_cable_label ==
    Reported("Cables.test_duplicate_cable_label",
             test_duplicate_cable_label(cables, devices))

\* The tables the report is run on: two devices at two sites and NumCables
\* cables, each one of these.
Cable(label, a_id, b_id, a_type, a_site, a_device) ==
    [label |-> label, status |-> TRUE,
     termination_a_id |-> a_id, termination_b_id |-> b_id,
     termination_a_type |-> a_type,
     termination_a |-> [site |-> a_site, device |-> a_device]]

CablesDevices ==
    << Device("asw-a1-eqiad", "eqiad", None, "asw", "active", "A"),
       Device("asw-a1-codfw", "codfw", None, "asw", "active", "B") >>

CableProfiles ==
    { Cable(<<"x">>, 1, 1, "interface", None, 1),
      Cable(<<"x", " ">>, 1, 1, "interface", None, 1),
      Cable(<<" ", "x">>, 1, 1, "circuit termination", "eqiad", 0),
      Cable(<<"x">>, 1, 1, "interface", None, 2),
      Cable(<<"y">>, 1, 1, "interface", None, 1),
      Cable(<<"x">>, 1, 1, "interface", None, 0),
      Cable(<<" ">>, 1, 1, "interface", None, 1),
      Cable(<<>>, 1, 1, "interface", None, 1),
      Cable(NullLabel, 1, 1, "interface", None, 1),
      Cable(<<"x">>, 1, 0, "interface", None, 1),
      Cable(<<"x">>, 0, 1, "interface", None, 1) }

InitCables ==
    /\ devices = CablesDevices
    /\ cables \in [1..NumCables -> CableProfiles]
    /\ customfieldvalues = <<>>
    /\ interfaces = <<>>
    /\ ipaddresses = <<>>
    /\ ports = <<>>
    /\ inventoryitems = <<>>
    /\ virtualmachines = <<>>
    /\ lastrun = NoRun
    /\ nruns = 0
    /\ running = <<>>

NextCables == Cables_test_duplicate_cable_label

SpecCables == InitCables /\ [][NextCables]_vars

\* ------------------------------------------------------------------------
\* Reports: the test methods that follow run on the inventory of
\* SpecInventory, whose records carry all the columns the reports read
\* ------------------------------------------------------------------------

\* The entries the turns of a loop leave, one after the other.
RECURSIVE Flatten(_)
Flatten(seqs) ==
    IF Len(seqs) = 0 THEN <<>> ELSE Head(seqs) \o Flatten(Tail(seqs))

\* Device.get_status_display(): the label of a status.
get_status_display(status) ==
    CASE status = "active" -> "Active"
      [] status = "offline" -> "Offline"
      [] status = "planned" -> "Planned"
      [] status = "staged" -> "Staged"
      [] status = "failed" -> "Failed"
      [] status = "inventory" -> "Inventory"
      [] status = "decommissioning" -> "Decommissioning"

\* A report's test method has stopped on an exception: the entries logged
\* before it stay in the log, and no table has changed.
ReportedRaising(name, log, raised) ==
    /\ nruns < MaxRuns
    /\ lastrun' = [ReportRun(name, log) EXCEPT !.raised = raised]
    /\ nruns' = nruns + 1
    /\ UNCHANGED running
    /\ UNCHANGED tables

\* A test method has run on what the report's constructor loaded from the
\* external source: the execution record keeps that input next to the log.
ReportedOn(name, log, loaded) ==
    /\ nruns < MaxRuns
    /\ lastrun' = ReportRun(name, log) @@ [loaded |-> loaded]
    /\ nruns' = nruns + 1
    /\ UNCHANGED running
    /\ UNCHANGED tables

\* ------------------------------------------------------------------------
\* reports/coherence.py: the other test methods of Coherence
\* ------------------------------------------------------------------------

\* ASSET_TAG_RE.fullmatch (WMF\d{4}), on the asset tags the tables hold:
\* "WMF1234", "WMF5678", "WMF123", "wmf1234".
ASSET_TAG_RE_fullmatch(asset_tag) == asset_tag \in {"WMF1234", "WMF5678"}

\* TICKET_RE.fullmatch (RT #\d{2,}|T\d{5,}), on the tickets the tables
\* hold: "T12345", "RT #1234", "T123", and "None" for str(None).
TICKET_RE_fullmatch(ticket) == ticket \in {"T12345", "RT #1234"}

\* cf(device, field), lines 27-39: the rows of the device's custom field
\* values with that field name, in order; cf returns the value of the first
\* and None when there is none.
cf_rows(d, field, cfvs) ==
    SelectSeq(pks(cfvs),
              LAMBDA r : /\ cfvs[r].obj_type = "device"
                         /\ cfvs[r].obj_id = d
                         /\ cfvs[r].field = field)

Coherence_test_malformed_asset_tags ==
    LET test_malformed_asset_tags(devs) ==
            LET qs == get_devices_query(devs)
                well(d) == /\ devs[d].asset_tag # None
                           /\ ASSET_TAG_RE_fullmatch(devs[d].asset_tag)
                turn(d) ==
                    IF devs[d].asset_tag = None
                    THEN <<Entry("failure", d, <<"missing asset tag">>)>>
                    ELSE IF ~ASSET_TAG_RE_fullmatch(devs[d].asset_tag)
                         THEN <<Entry("failure", d,
                                      <<"malformed asset tag: {}", devs[d].asset_tag>>)>>
                         ELSE <<>>
                success_count == Cardinality({i \in DOMAIN qs : well(qs[i])})
            IN  Append(Flatten([i \in DOMAIN qs |-> turn(qs[i])]),
                       Entry("success", 0,
                             <<"{} correctly formatted asset tags", success_count>>))
    IN  Reported("Coherence.test_malformed_asset_tags",
                 test_malformed_asset_tags(devices))

Coherence_test_purchase_date ==
    LET test_purchase_date(devs, cfvs, today) ==
            LET qs == get_devices_query(devs)
                rows(d) == cf_rows(d, "purchase_date", cfvs)
                good(d) == rows(d) # <<>> /\ cfvs[rows(d)[1]].value <= today
                turn(d) ==
                    IF rows(d) = <<>>
                    THEN <<Entry("failure", d, <<"missing purchase date">>)>>
                    ELSE IF cfvs[rows(d)[1]].value > today
                         THEN <<Entry("failure", d, <<"purchase date is in the future">>)>>
                         ELSE <<>>
                success_count == Cardinality({i \in DOMAIN qs : good(qs[i])})
            IN  Append(Flatten([i \in DOMAIN qs |-> turn(qs[i])]),
                       Entry("success", 0, <<"{} present purchase dates", success_count>>))
    IN  Reported("Coherence.test_purchase_date",
                 test_purchase_date(devices, customfieldvalues, Today))

Coherence_test_serials ==
    LET test_serials(devs) ==
            LET all == get_devices_query(devs)
                qs == SelectSeq(all,
                         LAMBDA d : /\ devs[d].status \notin {"decommissioning", "offline"}
                                    /\ devs[d].device_role \notin DEVICE_ROLE_BLACKLIST)
                missing(d) == devs[d].serial = None \/ devs[d].serial = ""
                turn(d) == IF missing(d)
                           THEN <<Entry("failure", d, <<"missing serial">>)>>
                           ELSE <<>>
                success_count == Cardinality({i \in DOMAIN qs : ~missing(qs[i])})
            IN  Append(Flatten([i \in DOMAIN qs |-> turn(qs[i])]),
                       Entry("success", 0, <<"{} present serials", success_count>>))
    IN  Reported("Coherence.test_serials", test_serials(devices))

Coherence_test_ticket ==
    LET test_ticket(devs, cfvs) ==
            LET qs == get_devices_query(devs)
                rows(d) == cf_rows(d, "ticket", cfvs)
                \* str(device.mpcf("ticket"))
                ticket(d) == IF rows(d) = <<>> THEN "None" ELSE cfvs[rows(d)[1]].value
                turn(d) ==
                    IF TICKET_RE_fullmatch(ticket(d)) THEN <<>>
                    ELSE IF rows(d) = <<>>
                         THEN <<Entry("failure", d, <<"missing procurement ticket">>)>>
                         ELSE <<Entry("failure", d,
                                      <<"malformed procurement ticket: {}", ticket(d)>>)>>
                success_count ==
                    Cardinality({i \in DOMAIN qs : TICKET_RE_fullmatch(ticket(qs[i]))})
            IN  Append(Flatten([i \in DOMAIN qs |-> turn(qs[i])]),
                       Entry("success", 0,
                             <<"{} correctly formatted procurement tickets", success_count>>))
    IN  Reported("Coherence.test_ticket", test_ticket(devices, customfieldvalues))

Coherence_test_offline_rack ==
    LET test_offline_rack(devs) ==
            LET qs == SelectSeq(get_devices_query(devs),
                         LAMBDA d : devs[d].status = "offline" /\ devs[d].rack # None)
            IN  [i \in DOMAIN qs |->
                   Entry("failure", qs[i],
                         <<"rack defined for status {status} device: {site}-{rack}",
                           "Offline", devs[qs[i]].site, devs[qs[i]].rack>>)]
    IN  Reported("Coherence.test_offline_rack", test_offline_rack(devices))

Coherence_test_online_rack ==
    LET test_online_rack(devs) ==
            LET qs == SelectSeq(get_devices_query(devs),
                         LAMBDA d : /\ devs[d].status \notin {"offline", "planned", "inventory"}
                                    /\ devs[d].rack = None)
            IN  [i \in DOMAIN qs |->
                   Entry("failure", qs[i],
                         <<"no rack defined for status {} device",
                           get_status_display(devs[qs[i]].status)>>)]
    IN  Reported("Coherence.test_online_rack", test_online_rack(devices))

\* ------------------------------------------------------------------------
\* reports/management.py and management.py: ManagementConsole
\* ------------------------------------------------------------------------

\* reports/management.py lines 17 and 20.
DEVICE_ROLES == {"cr", "asw", "mr", "pfw"}
EXCLUDED_SITES == {"eqord", "eqdfw", "knams"}

\* device.consoleports.all(): the console ports of a device, by pk.
consoleports(d, prts) ==
    SelectSeq(pks(prts),
              LAMBDA q : prts[q].kind = "consoleport" /\ prts[q].device = d)

ManagementConsole_test_management_console ==
    LET test_management_console(devs, prts) ==
            LET qs == SelectSeq(pks(devs),
                         LAMBDA d : /\ devs[d].status \notin {"inventory", "offline",
                                                              "planned", "decommissioning"}
                                    /\ devs[d].device_role \in DEVICE_ROLES
                                    /\ devs[d].site \notin EXCLUDED_SITES)
                connected(d) ==
                    \E i \in DOMAIN consoleports(d, prts) :
                       prts[consoleports(d, prts)[i]].connection_status = "connected"
                turn(d) ==
                    IF consoleports(d, prts) = <<>>
                    THEN <<Entry("failure", d, <<"missing console port">>)>>
                    ELSE IF connected(d) THEN <<>>
                         ELSE <<Entry("failure", d, <<"missing connected console port">>)>>
                successcount == Cardinality({i \in DOMAIN qs : connected(qs[i])})
            IN  Append(Flatten([i \in DOMAIN qs |-> turn(qs[i])]),
                       Entry("success", 0,
                             <<"{} devices with connected ports", successcount>>))
    IN  Reported("ManagementConsole.test_management_console",
                 test_management_console(devices, ports))

\* management.py, the report's earlier version: decommissioning devices are
\* looked at, a connected port counts only with a console server port at
\* its other end, and each device gets an entry of its own.
ManagementConsoleOld_test_management_console ==
    LET old_test_management_console(devs, prts) ==
            LET qs == SelectSeq(pks(devs),
                         LAMBDA d : /\ devs[d].status \notin {"inventory", "offline", "planned"}
                                    /\ devs[d].device_role \in DEVICE_ROLES
                                    /\ devs[d].site \notin EXCLUDED_SITES)
                connected(d) ==
                    \E i \in DOMAIN consoleports(d, prts) :
                       LET port == prts[consoleports(d, prts)[i]]
                       IN  /\ port.connection_status = "connected"
                           /\ port.cs_port \notin {None, ""}
                turn(d) ==
                    IF consoleports(d, prts) = <<>>
                    THEN <<Entry("failure", d, <<"no console ports present">>)>>
                    ELSE IF connected(d)
                         THEN <<Entry("success", d,
                                      <<"at least one console connection is present">>)>>
                         ELSE <<Entry("failure", d,
                                      <<"only unconnected console ports are present">>)>>
            IN  Flatten([i \in DOMAIN qs |-> turn(qs[i])])
    IN  Reported("management.ManagementConsole.test_management_console",
                 old_test_management_console(devices, ports))

\* ------------------------------------------------------------------------
\* reports/cables.py: the other test methods of Cables
\* ------------------------------------------------------------------------

\* Lines 19-24.
CABLES_EXCLUDE_STATUSES == {"decommissioning", "inventory", "offline", "planned"}

\* regex.match, which looks for the expression at the start of the name, on
\* the names the tables hold ("console0", "console-re0", "con0", "port12",
\* "Port1", "PSU1", "PEM 0", "psu1", "12", "1a", "A1", "mgmt", "eth0",
\* "xe-0/0/0", "Ethernet1", "enp4s0f0").
regex_match(label, name) ==
    CASE label = "console port" -> name \in {"console0", "console-re0"}
      [] label = "console server port" -> name \in {"port12"}
      [] label = "power port" -> name \in {"PSU1", "PEM 0"}
      [] label = "power outlet" -> name \in {"12", "1a"}
      [] label = "interface" ->
            name \in {"mgmt", "eth0", "xe-0/0/0", "enp4s0f0", "12"}

\* _port_names_test (lines 43-59) on a queryset of terminations, given as
\* the sequence of their (device, name) records.
port_names_test(queryset, label) ==
    LET turn(t) ==
            IF regex_match(label, t.name) THEN <<>>
            ELSE <<Entry("failure", t.device,
                         <<"incorrectly named {} cable termination: {}",
                           label, t.name>>)>>
        successes ==
            Cardinality({i \in DOMAIN queryset :
                            regex_match(label, queryset[i].name)})
    IN  Append(Flatten([i \in DOMAIN queryset |-> turn(queryset[i])]),
               Entry("success", 0,
                     <<"{} correctly named {} cable terminations", successes, label>>))

\* <Model>.objects.exclude(device__status__in=EXCLUDE_STATUSES) on one of
\* the four port tables.
ports_queryset(kind, prts, devs) ==
    LET qs == SelectSeq(pks(prts),
                 LAMBDA q : /\ prts[q].kind = kind
                            /\ devs[prts[q].device].status
                                  \notin CABLES_EXCLUDE_STATUSES)
    IN  [i \in DOMAIN qs |-> [device |-> prts[qs[i]].device,
                              name |-> prts[qs[i]].name]]

Cables_test_console_port_termination_names ==
    Reported("Cables.test_console_port_termination_names",
             port_names_test(ports_queryset("consoleport", ports, devices),
                             "console port"))

Cables_test_console_server_port_termination_names ==
    Reported("Cables.test_console_server_port_termination_names",
             port_names_test(ports_queryset("consoleserverport", ports, devices),
                             "console server port"))

Cables_test_power_port_termination_names ==
    Reported("Cables.test_power_port_termination_names",
             port_names_test(ports_queryset("powerport", ports, devices),
                             "power port"))

Cables_test_power_outlet_termination_names ==
    Reported("Cables.test_power_outlet_termination_names",
             port_names_test(ports_queryset("poweroutlet", ports, devices),
                             "power outlet"))

\* Interface.objects.exclude(device__status__in=EXCLUDE_STATUSES).
interfaces_queryset(ifs, devs) ==
    LET qs == SelectSeq(pks(ifs),
                 LAMBDA q : devs[ifs[q].device].status \notin CABLES_EXCLUDE_STATUSES)
    IN  [i \in DOMAIN qs |-> [device |-> ifs[qs[i]].device,
                              name |-> ifs[qs[i]].name]]

Cables_test_interface_termination_names ==
    Reported("Cables.test_interface_termination_names",
             port_names_test(interfaces_queryset(interfaces, devices), "interface"))

Cables_test_blank_cable_label ==
    LET test_blank_cable_label(cbls, devs) ==
            LET qs == SelectSeq(pks(cbls), LAMBDA c : cbls[c].status = TRUE)
                blank(c) == cbls[c].label = NullLabel \/ strip(cbls[c].label) = <<>>
                turn(c) ==
                    IF blank(c)
                    THEN <<Entry("failure", c,
                                 <<"blank cable label (site {})",
                                   get_site_slug_for_cable(cbls[c], devs)>>)>>
                    ELSE <<>>
                success == Cardinality({i \in DOMAIN qs : ~blank(qs[i])})
            IN  Append(Flatten([i \in DOMAIN qs |-> turn(qs[i])]),
                       Entry("success", 0, <<"{} non-blank cable labels", success>>))
    IN  Reported("Cables.test_blank_cable_label",
                 test_blank_cable_label(cables, devices))

\* ------------------------------------------------------------------------
\* Reports that compare NetBox with an external source.  What the report's
\* constructor loaded (a dict) is the sequence of its items, in the dict's
\* order: records [key, value] with distinct keys.
\* ------------------------------------------------------------------------

dict_has(items, key) == \E i \in DOMAIN items : items[i].key = key

dict_get(items, key) ==
    items[CHOOSE i \in DOMAIN items : items[i].key = key].value

\* values_list("name", flat=True) of a queryset of pks.
names_of(qs, table) == {table[qs[i]].name : i \in DOMAIN qs}

\* ------------------------------------------------------------------------
\* reports/puppetdb.py: PuppetDB
\* ------------------------------------------------------------------------

\* Lines 22-31.
PUPPETDB_INCLUDE_ROLES == {"server"}

\* A plausible slip: the failed status listed with the excluded ones.
PUPPETDB_EXCLUDE_STATUSES_and_failed ==
    {"inventory", "offline", "planned", "decommissioning", "failed"}
PUPPETDB_EXCLUDE_STATUSES == {"inventory", "offline", "planned", "decommissioning"}
\* A plausible slip: the failed status left out of the longer tuple.
EXCLUDE_AND_FAILED_STATUSES_without_failed == PUPPETDB_EXCLUDE_STATUSES

EXCLUDE_AND_FAILED_STATUSES == PUPPETDB_EXCLUDE_STATUSES \cup {"failed"}

\* What PuppetDB answers to the constructor (lines 42-44): the facts
\* serialnumber, is_virtual and productname, each keyed by host name.
PuppetDBFacts ==
    { [serials |-> <<>>, devices |-> <<>>, models |-> <<>>],
      [serials |-> << [key |-> "db1001", value |-> "A"],
                      [key |-> "db1002", value |-> "B"],
                      [key |-> "vm1", value |-> None],
                      [key |-> "vm3", value |-> None],
                      [key |-> "db9999", value |-> "Z"] >>,
       devices |-> << [key |-> "db1001", value |-> FALSE],
                      [key |-> "db1002", value |-> FALSE],
                      [key |-> "db1003", value |-> TRUE],
                      [key |-> "vm1", value |-> TRUE],
                      [key |-> "vm2", value |-> FALSE],
                      [key |-> "vm3", value |-> TRUE],
                      [key |-> "db9999", value |-> FALSE] >>,
       models |-> << [key |-> "db1001", value |-> "PowerEdge R440"],
                     [key |-> "db1003", value |-> "PowerEdge R430"] >>] }

\* self.device_query (line 45).
puppetdb_device_query(devs) ==
    SelectSeq(pks(devs),
              LAMBDA d : /\ devs[d].device_role \in PUPPETDB_INCLUDE_ROLES
                         /\ devs[d].tenant = None)

\* Device.objects.get(name=name); Device.name is unique.
device_by_name(name, devs) == CHOOSE d \in DOMAIN devs : devs[d].name = name

PuppetDB_test_puppetdb_in_netbox ==
    LET puppetdb_test_puppetdb_in_netbox(devs, puppetdb_devices) ==
            LET query == puppetdb_device_query(devs)
                valid_netbox_devices ==
                    names_of(SelectSeq(query, LAMBDA d : devs[d].status
                                          \notin PUPPETDB_EXCLUDE_STATUSES), devs)
                invalid_netbox_devices ==
                    names_of(SelectSeq(query, LAMBDA d : devs[d].status
                                          \in PUPPETDB_EXCLUDE_STATUSES), devs)
                counted(item) == ~item.value /\ item.key \in valid_netbox_devices
                turn(item) ==
                    IF item.value THEN <<>>
                    ELSE IF item.key \in valid_netbox_devices THEN <<>>
                    ELSE IF item.key \in invalid_netbox_devices
                         THEN LET invalid_device == device_by_name(item.key, devs)
                              IN  <<Entry("failure", invalid_device,
                                          <<"unexpected state for physical device: {} in netbox",
                                            get_status_display(devs[invalid_device].status)>>)>>
                         ELSE <<Entry("failure", 0,
                                      <<"expected device missing from Netbox: {}", item.key>>)>>
                success == Cardinality({i \in DOMAIN puppetdb_devices :
                                           counted(puppetdb_devices[i])})
            IN  Append(Flatten([i \in DOMAIN puppetdb_devices |-> turn(puppetdb_devices[i])]),
                       Entry("success", 0,
                             <<"{} physical devices that are in PuppetDB are also in Netbox",
                               success>>))
    IN  \E facts \in PuppetDBFacts :
           ReportedOn("PuppetDB.test_puppetdb_in_netbox",
                      puppetdb_test_puppetdb_in_netbox(devices, facts.devices),
                      facts.devices)

PuppetDB_test_netbox_in_puppetdb ==
    LET puppetdb_test_netbox_in_puppetdb(devs, puppetdb_devices) ==
            LET qs == SelectSeq(puppetdb_device_query(devs),
                         LAMBDA d : devs[d].status \notin EXCLUDE_AND_FAILED_STATUSES)
                good(d) == /\ dict_has(puppetdb_devices, devs[d].name)
                           /\ ~dict_get(puppetdb_devices, devs[d].name)
                turn(d) ==
                    IF ~dict_has(puppetdb_devices, devs[d].name)
                    THEN <<Entry("failure", d,
                                 <<"missing physical device in PuppetDB: state {} in Netbox",
                                   get_status_display(devs[d].status)>>)>>
                    ELSE IF dict_get(puppetdb_devices, devs[d].name)
                         THEN <<Entry("failure", d,
                                      <<"expected physical device marked as virtual in PuppetDB">>)>>
                         ELSE <<>>
                success == Cardinality({i \in DOMAIN qs : good(qs[i])})
            IN  Append(Flatten([i \in DOMAIN qs |-> turn(qs[i])]),
                       Entry("success", 0,
                             <<"{} physical devices that are in Netbox are also in PuppetDB",
                               success>>))
    IN  \E facts \in PuppetDBFacts :
           ReportedOn("PuppetDB.test_netbox_in_puppetdb",
                      puppetdb_test_netbox_in_puppetdb(devices, facts.devices),
                      facts.devices)

PuppetDB_test_puppetdb_serials ==
    LET puppetdb_test_puppetdb_serials(devs, puppetdb_serials) ==
            LET qs == puppetdb_device_query(devs)
                known(d) == dict_has(puppetdb_serials, devs[d].name)
                turn(d) ==
                    IF ~known(d) THEN <<>>
                    ELSE IF devs[d].serial # dict_get(puppetdb_serials, devs[d].name)
                         THEN <<Entry("failure", d,
                                      <<"mismatched serials: {} (netbox) != {} (puppetdb)",
                                        devs[d].serial,
                                        dict_get(puppetdb_serials, devs[d].name)>>)>>
                         ELSE <<>>
                success ==
                    Cardinality({i \in DOMAIN qs :
                        /\ known(qs[i])
                        /\ devs[qs[i]].serial = dict_get(puppetdb_serials, devs[qs[i]].name)})
            IN  Append(Flatten([i \in DOMAIN qs |-> turn(qs[i])]),
                       Entry("success", 0,
                             <<"{} physical devices have matching serial numbers", success>>))
    IN  \E facts \in PuppetDBFacts :
           Reported("PuppetDB.test_puppetdb_serials",
                    puppetdb_test_puppetdb_serials(devices, facts.serials))

PuppetDB_test_puppetdb_models ==
    LET puppetdb_test_puppetdb_models(devs, puppetdb_models) ==
            LET qs == puppetdb_device_query(devs)
                known(d) == dict_has(puppetdb_models, devs[d].name)
                turn(d) ==
                    IF ~known(d) THEN <<>>
                    ELSE IF devs[d].model # dict_get(puppetdb_models, devs[d].name)
                         THEN <<Entry("failure", d,
                                      <<"mismatched device models: {} (netbox) != {} (puppetdb)",
                                        devs[d].model,
                                        dict_get(puppetdb_models, devs[d].name)>>)>>
                         ELSE <<>>
                success ==
                    Cardinality({i \in DOMAIN qs :
                        /\ known(qs[i])
                        /\ devs[qs[i]].model = dict_get(puppetdb_models, devs[qs[i]].name)})
            IN  Append(Flatten([i \in DOMAIN qs |-> turn(qs[i])]),
                       Entry("success", 0,
                             <<"{} devices have matching model names", success>>))
    IN  \E facts \in PuppetDBFacts :
           Reported("PuppetDB.test_puppetdb_models",
                    puppetdb_test_puppetdb_models(devices, facts.models))

PuppetDB_test_puppetdb_vms_in_netbox ==
    LET puppetdb_test_puppetdb_vms_in_netbox(vmachines, puppetdb_devices) ==
            LET vms == names_of(SelectSeq(pks(vmachines),
                                   LAMBDA v : vmachines[v].status # "offline"), vmachines)
                turn(item) ==
                    IF ~item.value THEN <<>>
                    ELSE IF item.key \notin vms
                         THEN <<Entry("failure", 0, <<"missing VM from Netbox: {} ", item.key>>)>>
                         ELSE <<>>
                success == Cardinality({i \in DOMAIN puppetdb_devices :
                                           /\ puppetdb_devices[i].value
                                           /\ puppetdb_devices[i].key \in vms})
            IN  Append(Flatten([i \in DOMAIN puppetdb_devices |-> turn(puppetdb_devices[i])]),
                       Entry("success", 0,
                             <<"{} VMs that are in PuppetDB are also in Netbox VMs", success>>))
    IN  \E facts \in PuppetDBFacts :
           Reported("PuppetDB.test_puppetdb_vms_in_netbox",
                    puppetdb_test_puppetdb_vms_in_netbox(virtualmachines, facts.devices))

PuppetDB_test_netbox_vms_in_puppetdb ==
    LET puppetdb_test_netbox_vms_in_puppetdb(vmachines, puppetdb_devices) ==
            LET vms == SelectSeq(pks(vmachines), LAMBDA v : vmachines[v].status # "offline")
                good(v) == /\ dict_has(puppetdb_devices, vmachines[v].name)
                           /\ dict_get(puppetdb_devices, vmachines[v].name)
                turn(v) ==
                    IF ~dict_has(puppetdb_devices, vmachines[v].name)
                    THEN <<Entry("failure", v, <<"missing VM from PuppetDB">>)>>
                    ELSE IF ~dict_get(puppetdb_devices, vmachines[v].name)
                         THEN <<Entry("failure", v,
                                      <<"expected VM marked as Physical in PuppetDB">>)>>
                         ELSE <<>>
                success == Cardinality({i \in DOMAIN vms : good(vms[i])})
            IN  Append(Flatten([i \in DOMAIN vms |-> turn(vms[i])]),
                       Entry("success", 0,
                             <<"{} VMs that are in Netbox are also in PuppetDB VMs", success>>))
    IN  \E facts \in PuppetDBFacts :
           Reported("PuppetDB.test_netbox_vms_in_puppetdb",
                    puppetdb_test_netbox_vms_in_puppetdb(virtualmachines, facts.devices))

\* ------------------------------------------------------------------------
\* reports/puppetdbserials.py: PuppetDB (the serial number report)
\* ------------------------------------------------------------------------

\* Lines 16-22.
SERIALS_INCLUDE_ROLES == {"server"}
EXCLUDE_TENANTS == {"fundraising-tech", "ripe"}
\* A plausible slip: decommissioning devices only warn as well.
SOFT_CHECK_STATUS_and_decommissioning ==
    {"inventory", "offline", "planned", "decommissioning"}

SOFT_CHECK_STATUS == {"inventory", "offline", "planned"}

\* self.device_query (lines 41-43); a device without tenant stays in.
serials_device_query(devs) ==
    SelectSeq(pks(devs),
              LAMBDA d : /\ devs[d].device_role \in SERIALS_INCLUDE_ROLES
                         /\ devs[d].tenant \notin EXCLUDE_TENANTS)

PuppetDBSerials_test_puppetdb_in_netbox ==
    LET serials_test_puppetdb_in_netbox(devs, puppetdb_serials) ==
            LET hostnames == names_of(serials_device_query(devs), devs)
                turn(item) ==
                    IF item.value = None THEN <<>>
                    ELSE IF item.key \notin hostnames
                         THEN <<Entry("failure", 0, <<"{} device missing from Netbox", item.key>>)>>
                         ELSE <<>>
                success == Cardinality({i \in DOMAIN puppetdb_serials :
                                           /\ puppetdb_serials[i].value # None
                                           /\ puppetdb_serials[i].key \in hostnames})
            IN  Append(Flatten([i \in DOMAIN puppetdb_serials |-> turn(puppetdb_serials[i])]),
                       Entry("info", 0,
                             <<"{} physical devices that are in PuppetDB are also in Netbox.",
                               success>>))
    IN  \E facts \in PuppetDBFacts :
           Reported("puppetdbserials.PuppetDB.test_puppetdb_in_netbox",
                    serials_test_puppetdb_in_netbox(devices, facts.serials))

\* The logs test_netbox_in_puppetdb can leave: softfail is a Python set, so
\* the order of the warnings is any order of its hosts.
PuppetDBSerials_test_netbox_in_puppetdb ==
    LET serials_test_netbox_in_puppetdb(devs, puppetdb_serials) ==
            LET hosts == serials_device_query(devs)
                missing(d) == ~dict_has(puppetdb_serials, devs[d].name)
                turn(d) ==
                    IF missing(d) /\ devs[d].status \notin SOFT_CHECK_STATUS
                    THEN <<Entry("failure", d, <<"device missing from PuppetDB">>)>>
                    ELSE <<>>
                softfail == {d \in Range(hosts) :
                                missing(d) /\ devs[d].status \in SOFT_CHECK_STATUS}
                orders == {o \in [1..Cardinality(softfail) -> softfail] :
                              \A i, j \in DOMAIN o : i # j => o[i] # o[j]}
                success == Cardinality({i \in DOMAIN hosts : ~missing(hosts[i])})
            IN  { Append(Flatten([i \in DOMAIN hosts |-> turn(hosts[i])])
                         \o [i \in DOMAIN o |->
                               Entry("warning", o[i],
                                     <<"(soft) device missing from PuppetDB (with status {})",
                                       get_status_display(devs[o[i]].status)>>)],
                         Entry("info", 0,
                               <<"{} devices that are in Netbox are also in PuppetDB", success>>))
                  : o \in orders }
    IN  \E facts \in PuppetDBFacts :
           \E log \in serials_test_netbox_in_puppetdb(devices, facts.serials) :
              ReportedOn("puppetdbserials.PuppetDB.test_netbox_in_puppetdb", log,
                         facts.serials)

PuppetDBSerials_test_puppetdb_serials ==
    LET serials_test_puppetdb_serials(devs, puppetdb_serials) ==
            LET hosts == serials_device_query(devs)
                known(d) == dict_has(puppetdb_serials, devs[d].name)
                turn(d) ==
                    IF ~known(d) THEN <<>>
                    ELSE IF devs[d].serial # dict_get(puppetdb_serials, devs[d].name)
                         THEN <<Entry("failure", d,
                                      <<"serials do not match: netbox:{} != puppetdb:{}",
                                        devs[d].serial,
                                        dict_get(puppetdb_serials, devs[d].name)>>)>>
                         ELSE <<>>
                success ==
                    Cardinality({i \in DOMAIN hosts :
                        /\ known(hosts[i])
                        /\ devs[hosts[i]].serial
                              = dict_get(puppetdb_serials, devs[hosts[i]].name)})
            IN  Append(Flatten([i \in DOMAIN hosts |-> turn(hosts[i])]),
                       Entry("info", 0,
                             <<"{} devices have matching serial numbers.", success>>))
    IN  \E facts \in PuppetDBFacts :
           Reported("puppetdbserials.PuppetDB.test_puppetdb_serials",
                    serials_test_puppetdb_serials(devices, facts.serials))

PuppetDBSerials_test_puppetdb_vms_in_netbox ==
    LET serials_test_puppetdb_vms_in_netbox(vmachines, puppetdb_serials) ==
            LET hosts == names_of(pks(vmachines), vmachines)
                puppetnulls == SelectSeq(puppetdb_serials, LAMBDA item : item.value = None)
                turn(item) ==
                    IF item.key \notin hosts
                    THEN <<Entry("failure", 0, <<"{} not in Netbox VMs.", item.key>>)>>
                    ELSE <<>>
                success == Cardinality({i \in DOMAIN puppetnulls :
                                           puppetnulls[i].key \in hosts})
            IN  Append(Flatten([i \in DOMAIN puppetnulls |-> turn(puppetnulls[i])]),
                       Entry("info", 0, <<"{} VMs from PuppetDB in Netbox.", success>>))
    IN  \E facts \in PuppetDBFacts :
           Reported("puppetdbserials.PuppetDB.test_puppetdb_vms_in_netbox",
                    serials_test_puppetdb_vms_in_netbox(virtualmachines, facts.serials))

\* ------------------------------------------------------------------------
\* The PuppetDB parity tests on tables of NumDevices devices
\* ------------------------------------------------------------------------

\* The names a device of the table can have, by pk (Device.name is unique,
\* and the default ordering of Device is by name).  PuppetDBFacts knows
\* db1001 and db1002 as physical hosts and db1003 as a virtual one; the
\* other names are unknown to PuppetDB.
PuppetDBHostNames ==
    << {"db1001"}, {"db1002", "db1003"}, {"db1004"}, {"db1005"} >>

\* What else the parity tests read of a device: tenant, role and status.
PuppetDBProfiles ==
    { [tenant |-> None, device_role |-> "server", status |-> "active"],
      [tenant |-> None, device_role |-> "server", status |-> "failed"],
      [tenant |-> None, device_role |-> "server", status |-> "inventory"],
      [tenant |-> None, device_role |-> "server", status |-> "offline"],
      [tenant |-> None, device_role |-> "server", status |-> "planned"],
      [tenant |-> None, device_role |-> "server", status |-> "decommissioning"],
      [tenant |-> "fr-tech", device_role |-> "server", status |-> "planned"],
      [tenant |-> "ripe", device_role |-> "server", status |-> "active"],
      [tenant |-> None, device_role |-> "asw", status |-> "active"] }

InitPuppetDB ==
    /\ \E names \in [1..NumDevices -> UNION Range(PuppetDBHostNames)],
          profiles \in [1..NumDevices -> PuppetDBProfiles] :
          /\ \A i \in 1..NumDevices : names[i] \in PuppetDBHostNames[i]
          /\ devices = [i \in 1..NumDevices |->
                           Device(names[i], "eqiad", profiles[i].tenant,
                                  profiles[i].device_role, profiles[i].status, "S")]
    /\ customfieldvalues = <<>>
    /\ interfaces = <<>>
    /\ ipaddresses = <<>>
    /\ cables = <<>>
    /\ ports = <<>>
    /\ inventoryitems = <<>>
    /\ virtualmachines = <<>>
    /\ lastrun = NoRun
    /\ nruns = 0
    /\ running = <<>>

NextPuppetDB ==
    \/ PuppetDB_test_puppetdb_in_netbox
    \/ PuppetDB_test_netbox_in_puppetdb
    \/ PuppetDBSerials_test_netbox_in_puppetdb

SpecPuppetDB == InitPuppetDB /\ [][NextPuppetDB]_vars

\* ------------------------------------------------------------------------
\* Strings of the external sources
\* ------------------------------------------------------------------------

\* str.lower(), on the strings the tables and the sources hold; the others
\* are in lower case already.
lower(str) ==
    CASE str = "Juniper" -> "juniper"
      [] str = "Dell" -> "dell"
      [] str = "EX4300-48T" -> "ex4300-48t"
      [] str = "MX480" -> "mx480"
      [] str = "PowerEdge R440" -> "poweredge r440"
      [] str = "ASHBURN" -> "ashburn"
      [] str = "Dallas" -> "dallas"
      [] str = "21715 Filigree Ct, Ashburn, VA" -> "21715 filigree ct, ashburn, va"
      [] str = "1649 W Frankford Rd, Carrollton, TX" -> "1649 w frankford rd, carrollton, tx"
      [] OTHER -> str

\* Python's "needle in haystack" on strings: the pairs, among the strings
\* the tables and the sources hold, where it is true.
contains(haystack, needle) ==
    <<haystack, needle>> \in
    { <<"juniper ex4300-48t", "juniper">>,
      <<"juniper ex4300-48t", "ex4300-48t">>,
      <<"juniper ex4300-48t", "juniper ex4300-48t">>,
      <<"juniper networks, inc. ex4300-48t ethernet switch", "juniper">>,
      <<"juniper networks, inc. ex4300-48t ethernet switch", "ex4300-48t">>,
      <<"mx480", "mx480">>,
      <<"juniper routing engine 0", "juniper">>,
      <<"juniper routing engine 0", "juniper routing engine">>,
      <<"juniper mx480 chassis", "juniper">>,
      <<"juniper mx480 chassis", "mx480">>,
      <<"juniper mx480 chassis", "juniper mx480">>,
      <<"21715 filigree ct, ashburn, va", "ashburn">>,
      <<"pfw3b-eqiad", "pfw3b">> }

\* ------------------------------------------------------------------------
\* reports/juniper.py: Juniper
\* ------------------------------------------------------------------------

\* A plausible slip: decommissioning devices are expected to have support.
STATUS_IGNORE_offline_only == {"offline"}

\* Lines 15 and 24.
STATUS_IGNORE == {"offline", "decommissioning"}
CSVFILE == "/tmp/juniper_installed_base.csv"

\* What load_installed_base returned to the constructor (line 36): None
\* when the file cannot be read, else the rows kept, keyed by serial.
Asset(product_name, install_city, status, contract_end_date) ==
    [product_name |-> product_name, install_city |-> install_city,
     status |-> status, contract_end_date |-> contract_end_date]

InstalledBases ==
    { [loaded |-> FALSE, items |-> <<>>],
      [loaded |-> TRUE, items |-> <<>>],
      [loaded |-> TRUE,
       items |-> << [key |-> "JN1",
                     value |-> Asset("EX4300-48T", "ASHBURN", "Active", "2030-01-01")],
                    [key |-> "JN3",
                     value |-> Asset("EX4300-48T", "Dallas", "Expired", "2018-01-01")],
                    [key |-> "JI1",
                     value |-> Asset("RE-S-1800X4", "ASHBURN", "Expired", "")],
                    [key |-> "JN9",
                     value |-> Asset("MX480", "ASHBURN", "Active", "")] >>] }

\* "not self.installed_base": None after an IOError, or no row kept.
no_installed_base(installed_base) ==
    ~installed_base.loaded \/ installed_base.items = <<>>

cant_load_csv == <<Entry("failure", 0, <<"Can't load CSV file from {}", CSVFILE>>)>>

has_serial(record) == record.serial # None /\ record.serial # ""

Juniper_test_missing_device_from_installed_base ==
    LET test_missing_device_from_installed_base(devs, installed_base) ==
            LET juniper_devices ==
                    SelectSeq(pks(devs),
                        LAMBDA d : /\ has_serial(devs[d])
                                   /\ devs[d].status \notin STATUS_IGNORE
                                   /\ devs[d].manufacturer = "juniper")
                turn(d) ==
                    IF ~dict_has(installed_base.items, devs[d].serial)
                    THEN <<Entry("failure", d,
                                 <<"Device with s/n {serial} not present in Juniper Installed Base",
                                   devs[d].serial>>)>>
                    ELSE <<>>
                device_matches ==
                    Cardinality({i \in DOMAIN juniper_devices :
                        dict_has(installed_base.items, devs[juniper_devices[i]].serial)})
            IN  IF no_installed_base(installed_base) THEN cant_load_csv
                ELSE Flatten([i \in DOMAIN juniper_devices |-> turn(juniper_devices[i])])
                     \o ( IF device_matches # 0
                          THEN <<Entry("success", 0, <<"{} devices matched", device_matches>>)>>
                          ELSE <<>> )
    IN  \E installed_base \in InstalledBases :
           Reported("Juniper.test_missing_device_from_installed_base",
                    test_missing_device_from_installed_base(devices, installed_base))

Juniper_test_missing_inventory_from_installed_base ==
    LET test_missing_inventory_from_installed_base(devs, items, installed_base) ==
            LET parents == {d \in DOMAIN devs : /\ devs[d].manufacturer = "juniper"
                                                /\ devs[d].status \notin STATUS_IGNORE}
                juniper_inventory ==
                    SelectSeq(pks(items),
                        LAMBDA t : /\ has_serial(items[t])
                                   /\ items[t].device \in parents
                                   /\ items[t].manufacturer = "juniper")
                turn(t) ==
                    IF ~dict_has(installed_base.items, items[t].serial)
                    THEN <<Entry("failure", t,
                                 <<"{parent_name} item {part_id} with s/n {serial} not present in Juniper Installed Base",
                                   devs[items[t].device].name, items[t].part_id,
                                   items[t].serial>>)>>
                    ELSE <<>>
                device_matches ==
                    Cardinality({i \in DOMAIN juniper_inventory :
                        dict_has(installed_base.items, items[juniper_inventory[i]].serial)})
            IN  IF no_installed_base(installed_base) THEN cant_load_csv
                ELSE Flatten([i \in DOMAIN juniper_inventory |-> turn(juniper_inventory[i])])
                     \o ( IF device_matches # 0
                          THEN <<Entry("success", 0,
                                       <<"{} inventory items matched", device_matches>>)>>
                          ELSE <<>> )
    IN  \E installed_base \in InstalledBases :
           Reported("Juniper.test_missing_inventory_from_installed_base",
                    test_missing_inventory_from_installed_base(
                        devices, inventoryitems, installed_base))

\* Lines 146-152: a dict keyed by serial filled in queryset order, so the
\* last record of a serial is the one kept.
last_with_serial(qs, table, serial) ==
    qs[CHOOSE i \in DOMAIN qs :
          /\ table[qs[i]].serial = serial
          /\ \A j \in DOMAIN qs : table[qs[j]].serial = serial => j <= i]

Juniper_test_consistency ==
    LET test_consistency(devs, items, installed_base) ==
            LET juniper_devices ==
                    SelectSeq(pks(devs),
                        LAMBDA d : has_serial(devs[d]) /\ devs[d].manufacturer = "juniper")
                juniper_inventory ==
                    SelectSeq(pks(items),
                        LAMBDA t : has_serial(items[t]) /\ items[t].manufacturer = "juniper")
                is_device(serial) ==
                    \E i \in DOMAIN juniper_devices : devs[juniper_devices[i]].serial = serial
                is_inventory_item(serial) ==
                    /\ ~is_device(serial)
                    /\ \E i \in DOMAIN juniper_inventory :
                          items[juniper_inventory[i]].serial = serial
                device(serial) == last_with_serial(juniper_devices, devs, serial)
                city(asset) == lower(asset.install_city)
                address_ok(serial, asset) ==
                    contains(lower(devs[device(serial)].physical_address), city(asset))
                support_ok(serial, asset) ==
                    ~ ( /\ devs[device(serial)].status \notin STATUS_IGNORE
                        /\ asset.status # "Active"
                        /\ asset.contract_end_date # "" )
                turn(serial, asset) ==
                    IF is_device(serial)
                    THEN ( IF address_ok(serial, asset) THEN <<>>
                           ELSE <<Entry("failure", device(serial),
                                        <<"City missmatch: {city} (Juniper) vs. {netbox_address} (Netbox)",
                                          city(asset),
                                          devs[device(serial)].physical_address>>)>> )
                         \o
                         ( IF support_ok(serial, asset) THEN <<>>
                           ELSE <<Entry("failure", device(serial),
                                        <<"Support missing, ended on: {support_end_date}",
                                          asset.contract_end_date>>)>> )
                    ELSE IF is_inventory_item(serial) THEN <<>>
                    ELSE <<Entry("failure", 0,
                                 <<"Device {name} with s/n {serial} not present in Netbox",
                                   asset.product_name, serial>>)>>
                base == installed_base.items
                serial_matches ==
                    Cardinality({i \in DOMAIN base :
                        is_device(base[i].key) \/ is_inventory_item(base[i].key)})
                address_matches ==
                    Cardinality({i \in DOMAIN base :
                        is_device(base[i].key) /\ address_ok(base[i].key, base[i].value)})
                support_matches ==
                    Cardinality({i \in DOMAIN base :
                        is_device(base[i].key) /\ support_ok(base[i].key, base[i].value)})
            IN  IF no_installed_base(installed_base) THEN cant_load_csv
                ELSE Flatten([i \in DOMAIN base |-> turn(base[i].key, base[i].value)])
                     \o ( IF serial_matches # 0 \/ support_matches # 0 \/ address_matches # 0
                          THEN <<Entry("success", 0,
                                       <<"{} matching serials; {} matching addresses; {} matching support",
                                         serial_matches, address_matches, support_matches>>)>>
                          ELSE <<>> )
    IN  \E installed_base \in InstalledBases :
           ReportedOn("Juniper.test_consistency",
                      test_consistency(devices, inventoryitems, installed_base),
                      installed_base)

\* ------------------------------------------------------------------------
\* reports/accounting.py: Accounting
\* ------------------------------------------------------------------------

\* What get_assets_from_accounting returned to the constructor (lines
\* 33-35): the assets of the spreadsheet, keyed by serial.
AccountingAssets ==
    { <<>>,
      << [key |-> "A",
          value |-> [date |-> Today - 400, asset_tag |-> "WMF1234",
                     ticket |-> "T12345"]],
         [key |-> "JN1",
          value |-> [date |-> Today - 800, asset_tag |-> "WMF5678",
                     ticket |-> "RT #1234"]],
         [key |-> "ZZ",
          value |-> [date |-> Today - 100, asset_tag |-> "WMF9999",
                     ticket |-> "T99999"]] >> }

\* date(2017, 7, 1) as a day number (line 179), Today being 2019-12-20.
oldest_date == 17348

\* date.today() - timedelta(90), line 182.
newest_date(today) == today - 90

Accounting_test_field_match ==
    LET test_field_match(devs, cfvs, assets) ==
            LET qs == SelectSeq(pks(devs), LAMBDA d : dict_has(assets, devs[d].serial))
                present(serial) == \E i \in DOMAIN qs : devs[qs[i]].serial = serial
                device(serial) == last_with_serial(qs, devs, serial)
                tickets(serial) == cf_rows(device(serial), "ticket", cfvs)
                netbox_ticket(serial) ==
                    IF tickets(serial) = <<>> THEN None ELSE cfvs[tickets(serial)[1]].value
                tag_ok(serial, asset) == asset.asset_tag = devs[device(serial)].asset_tag
                ticket_ok(serial, asset) == asset.ticket = netbox_ticket(serial)
                turn(serial, asset) ==
                    IF ~present(serial)
                    THEN <<Entry("failure", 0,
                                 <<"Device with s/n {serial} ({asset_tag}) not present in Netbox",
                                   serial, asset.asset_tag>>)>>
                    ELSE ( IF tag_ok(serial, asset) THEN <<>>
                           ELSE <<Entry("failure", device(serial),
                                        <<"Asset tag mismatch for s/n {serial}: {asset_tag} (Accounting) vs. {netbox_asset_tag} (Netbox)",
                                          serial, asset.asset_tag,
                                          devs[device(serial)].asset_tag>>)>> )
                         \o
                         ( IF ticket_ok(serial, asset) THEN <<>>
                           ELSE <<Entry("warning", device(serial),
                                        <<"Ticket mismatch for s/n {serial}: {ticket} (Accounting) vs. {netbox_ticket} (Netbox)",
                                          serial, asset.ticket, netbox_ticket(serial)>>)>> )
                asset_tag_matches ==
                    Cardinality({i \in DOMAIN assets :
                        present(assets[i].key) /\ tag_ok(assets[i].key, assets[i].value)})
                ticket_matches ==
                    Cardinality({i \in DOMAIN assets :
                        present(assets[i].key) /\ ticket_ok(assets[i].key, assets[i].value)})
            IN  Append(Flatten([i \in DOMAIN assets |-> turn(assets[i].key, assets[i].value)]),
                       Entry("success", 0,
                             <<"{} asset tags and {} tickets matched",
                               asset_tag_matches, ticket_matches>>))
    IN  \E assets \in AccountingAssets :
           Reported("Accounting.test_field_match",
                    test_field_match(devices, customfieldvalues, assets))

Accounting_test_missing_assets_from_accounting ==
    LET test_missing_assets_from_accounting(devs, cfvs, assets, today) ==
            LET recent(d) ==
                    \E r \in DOMAIN cfvs :
                       /\ cfvs[r].obj_type = "device" /\ cfvs[r].obj_id = d
                       /\ cfvs[r].field = "purchase_date"
                       /\ oldest_date <= cfvs[r].value
                       /\ cfvs[r].value <= newest_date(today)
                recent_devices ==
                    SelectSeq(pks(devs), LAMBDA d : devs[d].serial # "" /\ recent(d))
                turn(d) ==
                    IF ~dict_has(assets, devs[d].serial)
                    THEN <<Entry("failure", d,
                                 <<"Device with s/n {serial} ({asset_tag}) not present in Accounting",
                                   devs[d].serial, devs[d].asset_tag>>)>>
                    ELSE <<>>
                device_matches ==
                    Cardinality({i \in DOMAIN recent_devices :
                        dict_has(assets, devs[recent_devices[i]].serial)})
            IN  Append(Flatten([i \in DOMAIN recent_devices |-> turn(recent_devices[i])]),
                       Entry("success", 0,
                             <<"{} devices ({} to {}) matched",
                               device_matches, oldest_date, newest_date(today)>>))
    IN  \E assets \in AccountingAssets :
           Reported("Accounting.test_missing_assets_from_accounting",
                    test_missing_assets_from_accounting(
                        devices, customfieldvalues, assets, Today))

\* ------------------------------------------------------------------------
\* reports/librenms.py: LibreNMS
\* ------------------------------------------------------------------------

\* Lines 17-27 and 49.
INCLUDE_STATUSES == {"active", "staged"}
INCLUDE_DEVICE_ROLES_LNMS_CHECK == {"asw", "msw", "cr", "mr", "pfw", "pdu", "scs"}
INCLUDE_DEVICE_ROLES == {"asw", "msw", "cr", "mr", "pfw", "pdu"}
EXCLUDE_SITES == {"esams"}
INVENTORY_MANUFACTURERS == {"juniper"}

\* MODEL_EXCLUDES, lines 31-39.
MODEL_EXCLUDES(device) ==
    \/ device.manufacturer = "netgear" /\ device.device_role = "msw"
    \/ device.manufacturer = "dell" /\ device.type_slug = "powerconnect-2748"
    \/ device.manufacturer = "sj-manufacturing" /\ device.type_slug = "thrupower"
    \/ /\ device.manufacturer = "sentry"
       /\ device.type_slug \in {"smart-cdu", "switched-cdu", "c2l42ce-ycmfam00",
                                "c2x42ce-2caf2m00"}

\* DEVICE_EXCLUDES, line 46.
DEVICE_EXCLUDES(device) ==
    device.type_slug = "srx1500" /\ contains(device.name, "pfw3b")

\* MODEL_EQUIVS.get(key, "BADMATCH"), lines 52 and 239.
MODEL_EQUIVS_get(key) ==
    IF key = "juniper ex4300-48t" THEN "juniper routing engine" ELSE "BADMATCH"

\* What LibreNMSData read for the constructor (lines 121-123): the devices
\* and the inventory of LibreNMS, keyed by serial.
LibreNMSDatas ==
    { [devices |-> <<>>, inventory |-> <<>>],
      [devices |->
          << [key |-> "JN1",
              value |-> [id |-> 1, hardware |-> "juniper ex4300-48t",
                         description |-> "juniper networks, inc. ex4300-48t ethernet switch",
                         hostname |-> "asw-a1-eqiad"]],
             [key |-> "JN9",
              value |-> [id |-> 2, hardware |-> "mx480",
                         description |-> "internet router",
                         hostname |-> "cr2-eqiad"]],
             [key |-> "JN8",
              value |-> [id |-> 3, hardware |-> "mx480",
                         description |-> "internet router",
                         hostname |-> "cr8-eqiad"]] >>,
       inventory |->
          << [key |-> "JN3",
              value |-> [id |-> 1, description |-> "routing engine",
                         model |-> "routing engine 0", vendor |-> "juniper"]],
             [key |-> "JI1",
              value |-> [id |-> 2, description |-> "chassis",
                         model |-> "mx480 chassis", vendor |-> "juniper"]] >>] }

\* self._device_query (line 119).
librenms_device_query(devs) ==
    SelectSeq(pks(devs), LAMBDA d : devs[d].status \in INCLUDE_STATUSES)

LibreNMS_test_nb_net_in_librenms ==
    LET test_nb_net_in_librenms(devs, librenms) ==
            LET qs == SelectSeq(librenms_device_query(devs),
                         LAMBDA d : /\ devs[d].device_role \in INCLUDE_DEVICE_ROLES
                                    /\ ~MODEL_EXCLUDES(devs[d])
                                    /\ devs[d].serial # ""
                                    /\ ~DEVICE_EXCLUDES(devs[d]))
                found(d) ==
                    \/ dict_has(librenms.devices, devs[d].serial)
                    \/ /\ devs[d].manufacturer \in INVENTORY_MANUFACTURERS
                       /\ dict_has(librenms.inventory, devs[d].serial)
                turn(d) ==
                    IF found(d) THEN <<>>
                    ELSE IF devs[d].site \notin EXCLUDE_SITES
                         THEN <<Entry("failure", d,
                                      <<"missing Netbox device from LibreNMS of role {}",
                                        devs[d].device_role>>)>>
                         ELSE <<>>
                success == Cardinality({i \in DOMAIN qs : found(qs[i])})
            IN  Append(Flatten([i \in DOMAIN qs |-> turn(qs[i])]),
                       Entry("success", 0, <<"{} Netbox devices in LibreNMS", success>>))
    IN  \E librenms \in LibreNMSDatas :
           Reported("LibreNMS.test_nb_net_in_librenms",
                    test_nb_net_in_librenms(devices, librenms))

\* Lines 160-163: the inventory items the loop goes over.
librenms_inventory_queryset(devs, items) ==
    LET parents == {d \in Range(librenms_device_query(devs)) :
                       devs[d].device_role \in INCLUDE_DEVICE_ROLES}
    IN  SelectSeq(pks(items),
                  LAMBDA t : /\ items[t].device \in parents
                             /\ items[t].serial # None
                             /\ items[t].serial # "")

\* An item the loop of test_nb_inventory_in_librenms reads the site of
\* (line 164) exists: its serial is not in LibreNMS.  Whether an inventory
\* item has a site of its own is the host's matter.
reads_inventory_item_site(devs, items, librenms) ==
    \E t \in Range(librenms_inventory_queryset(devs, items)) :
       ~dict_has(librenms.inventory, items[t].serial)

\* test_nb_inventory_in_librenms where inventory_item.site is the site of
\* the item's device.
LibreNMS_test_nb_inventory_in_librenms ==
    LET test_nb_inventory_in_librenms(devs, items, librenms) ==
            LET qs == librenms_inventory_queryset(devs, items)
                failing(t) == /\ ~dict_has(librenms.inventory, items[t].serial)
                              /\ devs[items[t].device].site \notin EXCLUDE_SITES
                turn(t) ==
                    IF failing(t)
                    THEN <<Entry("failure", t, <<"missing Netbox inventory item from LibreNMS">>)>>
                    ELSE <<>>
                success == Cardinality({i \in DOMAIN qs : ~failing(qs[i])})
            IN  Append(Flatten([i \in DOMAIN qs |-> turn(qs[i])]),
                       Entry("success", 0,
                             <<"{} Netbox inventory items in LibreNMS", success>>))
    IN  \E librenms \in LibreNMSDatas :
           \/ Reported("LibreNMS.test_nb_inventory_in_librenms",
                       test_nb_inventory_in_librenms(devices, inventoryitems, librenms))
           \/ /\ reads_inventory_item_site(devices, inventoryitems, librenms)
              /\ ReportedRaising("LibreNMS.test_nb_inventory_in_librenms", <<>>,
                                 "AttributeError")

LibreNMS_test_librenms_in_nb ==
    LET test_librenms_in_nb(devs, librenms) ==
            LET qs == SelectSeq(librenms_device_query(devs),
                         LAMBDA d : devs[d].device_role \in INCLUDE_DEVICE_ROLES_LNMS_CHECK)
                devserials == {devs[qs[i]].serial : i \in DOMAIN qs}
                turn(item) ==
                    IF item.key \notin devserials
                    THEN <<Entry("failure", 0,
                                 <<"missing LibreNMS device from Netbox: serial: {} hostname: {} id: {}",
                                   item.key, item.value.hostname, item.value.id>>)>>
                    ELSE <<>>
                success == Cardinality({i \in DOMAIN librenms.devices :
                                           librenms.devices[i].key \in devserials})
            IN  Append(Flatten([i \in DOMAIN librenms.devices |-> turn(librenms.devices[i])]),
                       Entry("success", 0, <<"{} LibreNMS devices in Netbox", success>>))
    IN  \E librenms \in LibreNMSDatas :
           Reported("LibreNMS.test_librenms_in_nb",
                    test_librenms_in_nb(devices, librenms))

LibreNMS_test_librenms_vendor_model ==
    LET test_librenms_vendor_model(devs, librenms) ==
            LET qs == SelectSeq(librenms_device_query(devs),
                         LAMBDA d : /\ devs[d].device_role \in INCLUDE_DEVICE_ROLES
                                    /\ ~MODEL_EXCLUDES(devs[d]))
                nb_vendor_string(d) == lower(devs[d].manufacturer_name)
                nb_model_string(d) == lower(devs[d].model)
                nb_vendor_model_string(d) == nb_vendor_string(d) \o " " \o nb_model_string(d)
                as_device(d) == dict_has(librenms.devices, devs[d].serial)
                as_inventory(d) == ~as_device(d) /\ dict_has(librenms.inventory, devs[d].serial)
                device_match(d) ==
                    LET lnms == dict_get(librenms.devices, devs[d].serial)
                    IN  /\ \/ contains(lnms.hardware, nb_vendor_string(d))
                           \/ contains(lnms.description, nb_vendor_string(d))
                        /\ \/ contains(lnms.hardware, nb_model_string(d))
                           \/ contains(lnms.description, nb_model_string(d))
                librenms_vendor_model_string(d) ==
                    LET lnms == dict_get(librenms.inventory, devs[d].serial)
                    IN  lnms.vendor \o " " \o lnms.model
                inventory_match(d) ==
                    \/ contains(librenms_vendor_model_string(d), nb_vendor_model_string(d))
                    \/ /\ contains(librenms_vendor_model_string(d), nb_vendor_string(d))
                       /\ contains(librenms_vendor_model_string(d), nb_model_string(d))
                    \/ contains(librenms_vendor_model_string(d),
                                MODEL_EQUIVS_get(nb_vendor_model_string(d)))
                matched(d) == \/ as_device(d) /\ device_match(d)
                              \/ as_inventory(d) /\ inventory_match(d)
                turn(d) ==
                    IF matched(d) \/ devs[d].site \in EXCLUDE_SITES THEN <<>>
                    ELSE IF as_device(d)
                         THEN <<Entry("failure", d,
                                      <<"mismatch between LibreNMS and Netbox device types: Netbox devtype={}, LibreNMS devtype={} || {}",
                                        nb_vendor_model_string(d),
                                        dict_get(librenms.devices, devs[d].serial).description,
                                        dict_get(librenms.devices, devs[d].serial).hardware>>)>>
                         ELSE IF as_inventory(d)
                              THEN <<Entry("failure", d,
                                           <<"mismatch between LibreNMS and Netbox device types: Netbox devtype={}, LibreNMS devtype={}",
                                             nb_vendor_model_string(d),
                                             librenms_vendor_model_string(d)>>)>>
                              ELSE <<>>
                success == Cardinality({i \in DOMAIN qs : matched(qs[i])})
            IN  Append(Flatten([i \in DOMAIN qs |-> turn(qs[i])]),
                       Entry("success", 0,
                             <<"{} LibreNMS hardware and manufacturer matches in Netbox",
                               success>>))
    IN  \E librenms \in LibreNMSDatas :
           Reported("LibreNMS.test_librenms_vendor_model",
                    test_librenms_vendor_model(devices, librenms))

\* ------------------------------------------------------------------------
\* The script and the reports on one inventory
\* ------------------------------------------------------------------------

\* A dcim.Device row with the columns the reports read, those of its device
\* type, manufacturer and site included.
InventoryDevice(device, asset_tag, rack, maker, maker_name, model, type_slug, address) ==
    [name |-> device.name, site |-> device.site, tenant |-> device.tenant,
     device_role |-> device.device_role, status |-> device.status,
     serial |-> device.serial, asset_tag |-> asset_tag, rack |-> rack,
     manufacturer |-> maker, manufacturer_name |-> maker_name,
     model |-> model, type_slug |-> type_slug, physical_address |-> address]

Port(kind, device, name, connection_status, cs_port) ==
    [kind |-> kind, device |-> device, name |-> name,
     connection_status |-> connection_status, cs_port |-> cs_port]

\* The inventory the script and the reports run on.  The devices are in the
\* order of Device's default queryset (by name).
Inventory ==
    [ devices |->
        << InventoryDevice(Device("asw-a1-eqiad", "eqiad", None, "asw", "active", "JN1"),
                           "WMF5678", "A1", "juniper", "Juniper", "EX4300-48T",
                           "ex4300-48t", "21715 Filigree Ct, Ashburn, VA"),
           InventoryDevice(Device("asw-b1-eqiad", "eqiad", None, "asw", "staged", "JN3"),
                           "WMF123", None, "juniper", "Juniper", "EX4300-48T",
                           "ex4300-48t", "21715 Filigree Ct, Ashburn, VA"),
           InventoryDevice(Device("cr1-eqiad", "eqiad", None, "cr", "offline", "JN2"),
                           "wmf1234", "A1", "juniper", "Juniper", "MX480",
                           "mx480", "21715 Filigree Ct, Ashburn, VA"),
           InventoryDevice(Device("cr2-eqiad", "eqiad", None, "cr", "active", "JN9"),
                           "WMF1234", "A2", "juniper", "Juniper", "MX480",
                           "mx480", "21715 Filigree Ct, Ashburn, VA"),
           InventoryDevice(Device("db1001", "eqiad", None, "server", "active", "A"),
                           "WMF1234", "A3", "dell", "Dell", "PowerEdge R440",
                           "poweredge-r440", "21715 Filigree Ct, Ashburn, VA"),
           InventoryDevice(Device("db1002", "eqiad", None, "server", "planned", ""),
                           None, None, "dell", "Dell", "PowerEdge R440",
                           "poweredge-r440", "21715 Filigree Ct, Ashburn, VA"),
           InventoryDevice(Device("frdb2001", "codfw", "fr-tech", "server", "active", "A"),
                           "WMF1234", "B1", "dell", "Dell", "PowerEdge R440",
                           "poweredge-r440", "1649 W Frankford Rd, Carrollton, TX") >>,
      interfaces |->
        << [device |-> 1, name |-> "xe-0/0/0", mgmt_only |-> FALSE,
            type |-> "IFACE_TYPE_10GE_SFP_PLUS"],
           [device |-> 1, name |-> "Ethernet1", mgmt_only |-> FALSE,
            type |-> "IFACE_TYPE_1GE_FIXED"],
           [device |-> 5, name |-> "eth0", mgmt_only |-> FALSE,
            type |-> "IFACE_TYPE_1GE_FIXED"],
           [device |-> 6, name |-> "mgmt", mgmt_only |-> TRUE,
            type |-> "IFACE_TYPE_1GE_FIXED"] >>,
      ipaddresses |->
        existing_ips(IPv4(10, 0, 1, 0), IPv4(10, 0, 1, 3),
                     {IPv4(10, 0, 1, 0), IPv4(10, 0, 1, 2)}, 23)
        \o existing_ips(IPv4(10, 0, 16, 0), IPv4(10, 0, 16, 3), {IPv4(10, 0, 16, 1)}, 24),
      customfieldvalues |->
        << [field |-> "purchase_date", obj_type |-> "device", obj_id |-> 5,
            value |-> Today - 1700],
           [field |-> "ticket", obj_type |-> "device", obj_id |-> 5,
            value |-> "T12345"],
           [field |-> "ticket", obj_type |-> "device", obj_id |-> 1,
            value |-> "T123"],
           [field |-> "purchase_date", obj_type |-> "device", obj_id |-> 1,
            value |-> Today + 5],
           [field |-> "purchase_date", obj_type |-> "device", obj_id |-> 7,
            value |-> Today - 400] >>,
      cables |->
        << Cable(<<"x">>, 1, 1, "interface", None, 1),
           Cable(<<"x", " ">>, 1, 1, "interface", None, 1),
           Cable(<<" ">>, 1, 1, "circuit termination", "eqiad", 0),
           Cable(<<"y">>, 1, 1, "interface", None, 7) >>,
      ports |->
        << Port("consoleport", 1, "console0", "connected", "port12"),
           Port("consoleport", 2, "con0", "planned", None),
           Port("consoleport", 4, "console-re0", "connected", ""),
           Port("consoleserverport", 3, "port12", "connected", None),
           Port("consoleserverport", 4, "Port1", None, None),
           Port("powerport", 5, "PSU1", "connected", None),
           Port("powerport", 7, "psu1", None, None),
           Port("poweroutlet", 1, "12", "connected", None),
           Port("poweroutlet", 1, "A1", None, None) >>,
      inventoryitems |->
        << [device |-> 1, name |-> "RE0", serial |-> "JI1",
            manufacturer |-> "juniper", part_id |-> "RE-S-1800X4"],
           [device |-> 4, name |-> "PEM 0", serial |-> "JI2",
            manufacturer |-> "juniper", part_id |-> "PWR-MX480"],
           [device |-> 5, name |-> "disk0", serial |-> "",
            manufacturer |-> "dell", part_id |-> "HDD"] >>,
      virtualmachines |->
        << [name |-> "vm1", status |-> "active"],
           [name |-> "vm2", status |-> "offline"],
           [name |-> "vm4", status |-> "active"] >> ]

InitInventory ==
    /\ devices = Inventory.devices
    /\ interfaces = Inventory.interfaces
    /\ ipaddresses = Inventory.ipaddresses
    /\ customfieldvalues = Inventory.customfieldvalues
    /\ cables = Inventory.cables
    /\ ports = Inventory.ports
    /\ inventoryitems = Inventory.inventoryitems
    /\ virtualmachines = Inventory.virtualmachines
    /\ lastrun = NoRun
    /\ nruns = 0
    /\ running = <<>>

NextInventory ==
    \/ CreateManagementInterface
    \/ OldHardwareReport_test_hardware_age
    \/ Coherence_test_malformed_asset_tags
    \/ Coherence_test_purchase_date
    \/ Coherence_test_duplicate_serials
    \/ Coherence_test_serials
    \/ Coherence_test_ticket
    \/ Coherence_test_offline_rack
    \/ Coherence_test_online_rack
    \/ ManagementConsole_test_management_console
    \/ ManagementConsoleOld_test_management_console
    \/ Cables_test_console_port_termination_names
    \/ Cables_test_console_server_port_termination_names
    \/ Cables_test_power_port_termination_names
    \/ Cables_test_power_outlet_termination_names
    \/ Cables_test_interface_termination_names
    \/ Cables_test_duplicate_cable_label
    \/ Cables_test_blank_cable_label
    \/ PuppetDB_test_puppetdb_in_netbox
    \/ PuppetDB_test_netbox_in_puppetdb
    \/ PuppetDB_test_puppetdb_serials
    \/ PuppetDB_test_puppetdb_models
    \/ PuppetDB_test_puppetdb_vms_in_netbox
    \/ PuppetDB_test_netbox_vms_in_puppetdb
    \/ PuppetDBSerials_test_puppetdb_in_netbox
    \/ PuppetDBSerials_test_netbox_in_puppetdb
    \/ PuppetDBSerials_test_puppetdb_serials
    \/ PuppetDBSerials_test_puppetdb_vms_in_netbox
    \/ Juniper_test_missing_device_from_installed_base
    \/ Juniper_test_missing_inventory_from_installed_base
    \/ Juniper_test_consistency
    \/ Accounting_test_field_match
    \/ Accounting_test_missing_assets_from_accounting
    \/ LibreNMS_test_nb_net_in_librenms
    \/ LibreNMS_test_nb_inventory_in_librenms
    \/ LibreNMS_test_librenms_in_nb
    \/ LibreNMS_test_librenms_vendor_model

SpecInventory == InitInventory /\ [][NextInventory]_vars

\* ------------------------------------------------------------------------
\* The Juniper tests on tables of NumDevices devices
\* ------------------------------------------------------------------------

\* What the Juniper tests read of a device: serial, manufacturer, status and
\* the address of its site.  The serials are those of InstalledBases (JN1,
\* JN3 and JN9 of devices, JI1 of a part), an empty one and a NULL.
JuniperProfiles ==
    { [serial |-> "JN1", maker |-> "juniper", status |-> "active", site |-> "eqiad"],
      [serial |-> "JN3", maker |-> "juniper", status |-> "active", site |-> "eqiad"],
      [serial |-> "JN3", maker |-> "juniper", status |-> "offline", site |-> "eqiad"],
      [serial |-> "JN3", maker |-> "juniper", status |-> "decommissioning", site |-> "codfw"],
      [serial |-> "JI1", maker |-> "juniper", status |-> "staged", site |-> "eqiad"],
      [serial |-> "JN9", maker |-> "dell", status |-> "active", site |-> "eqiad"],
      [serial |-> "", maker |-> "juniper", status |-> "active", site |-> "eqiad"],
      [serial |-> None, maker |-> "juniper", status |-> "active", site |-> "codfw"] }

\* The InventoryItem tables: none; parts of device 1, one of which carries
\* the serial of a device and one of which is not Juniper's; a Juniper
\* part with the serial JN9 and one without serial.
JuniperInventoryItems ==
    { <<>>,
      << [device |-> 1, name |-> "RE0", serial |-> "JI1",
          manufacturer |-> "juniper", part_id |-> "RE-S-1800X4"],
         [device |-> 1, name |-> "disk0", serial |-> "JN9",
          manufacturer |-> "dell", part_id |-> "HDD"],
         [device |-> 1, name |-> "FPC 0", serial |-> "JN3",
          manufacturer |-> "juniper", part_id |-> "EX4300-48T"] >>,
      << [device |-> 1, name |-> "FPC 1", serial |-> "JN9",
          manufacturer |-> "juniper", part_id |-> "EX4300-48T"],
         [device |-> 1, name |-> "PEM 0", serial |-> None,
          manufacturer |-> "juniper", part_id |-> "PWR"] >> }

JuniperDeviceNames ==
    <<"asw-a1-eqiad", "asw-a2-eqiad", "asw-a3-eqiad", "asw-a4-eqiad", "asw-a5-eqiad">>

InitJuniper ==
    /\ \E profiles \in [1..NumDevices -> JuniperProfiles] :
          devices = [i \in 1..NumDevices |->
                       InventoryDevice(
                           Device(JuniperDeviceNames[i], profiles[i].site, None, "asw",
                                  profiles[i].status, profiles[i].serial),
                           None, None, profiles[i].maker,
                           IF profiles[i].maker = "juniper" THEN "Juniper" ELSE "Dell",
                           "EX4300-48T", "ex4300-48t",
                           IF profiles[i].site = "eqiad"
                           THEN "21715 Filigree Ct, Ashburn, VA"
                           ELSE "1649 W Frankford Rd, Carrollton, TX")]
    /\ inventoryitems \in JuniperInventoryItems
    /\ customfieldvalues = <<>>
    /\ interfaces = <<>>
    /\ ipaddresses = <<>>
    /\ cables = <<>>
    /\ ports = <<>>
    /\ virtualmachines = <<>>
    /\ lastrun = NoRun
    /\ nruns = 0
    /\ running = <<>>

NextJuniper ==
    \/ Juniper_test_missing_device_from_installed_base
    \/ Juniper_test_missing_inventory_from_installed_base
    \/ Juniper_test_consistency

SpecJuniper == InitJuniper /\ [][NextJuniper]_vars

\* ------------------------------------------------------------------------
\* Properties of CreateManagementInterface
\* ------------------------------------------------------------------------

\* The management prefixes of device d's site and tenant.
PrefixesFor(d) ==
    {p \in Prefixes : /\ p.role = "management"
                      /\ p.site = devices[d].site
                      /\ p.tenant = devices[d].tenant}

\* The step is a run of the script on device d with add_ip set.
AddIPStep(d) ==
    /\ nruns' = nruns + 1
    /\ lastrun'.kind = "script"
    /\ lastrun'.device = d
    /\ lastrun'.add_ip

\* The addresses of the IPAddress records the step creates.
NewIPs ==
    {ipaddresses'[i].address.ip : i \in (Len(ipaddresses) + 1)..Len(ipaddresses')}

\* Address a lies in the first /24 of prefix p.
InFirst24(a, p) == p.prefix.first <= a /\ a <= p.prefix.first + 255

\* The failures of a log.
Failures(log) == {i \in DOMAIN log : log[i].level = "failure"}

\* The run of lastrun ended with this message logged as only failure and
\* returned.
FailedWith(run_, text) ==
    /\ Cardinality(Failures(run_.log)) = 1
    /\ \A i \in Failures(run_.log) :
          /\ run_.log[i].message[1] = text
          /\ run_.output = run_.log[i].message
    /\ run_.raised = None

\* C1: for a device that is not fr-tech and has its management prefix, a run
\* creates at most one IPAddress; its address was available when the run
\* started, lies outside the first /24 of the prefix, and every available
\* address before it lies inside that /24; an address is allocated whenever
\* one is available outside the first /24.
C1_FirstAddressOutsideZerothNet ==
    [][\A d \in DOMAIN devices :
          (/\ AddIPStep(d)
           /\ devices[d].tenant # "fr-tech"
           /\ Cardinality(PrefixesFor(d)) = 1)
          => LET p == CHOOSE q \in PrefixesFor(d) : TRUE
                 available == get_available_ips(p, ipaddresses)
             IN  /\ Len(ipaddresses') <= Len(ipaddresses) + 1
                 /\ \A a \in NewIPs :
                       /\ a \in available
                       /\ ~InFirst24(a, p)
                       /\ \A b \in available : b < a => InFirst24(b, p)
                 /\ (/\ p.prefix.prefixlen <= 24
                     /\ \E b \in available : ~InFirst24(b, p))
                    => NewIPs # {}]_vars

\* C1 witness: a run has allocated an address for a device that is not
\* fr-tech while a lower address, in the first /24, is still available.
C1_Witness ==
    /\ lastrun.kind = "script"
    /\ lastrun.add_ip
    /\ lastrun.output # <<>>
    /\ lastrun.output[1] = "Created ip {} for mgmt on device {}"
    /\ \E d \in DOMAIN devices :
          /\ lastrun.device = d
          /\ devices[d].tenant # "fr-tech"
          /\ \E p \in PrefixesFor(d) :
                \E b \in get_available_ips(p, ipaddresses) :
                   b < lastrun.output[2] /\ InFirst24(b, p)

\* C2: no two IPAddress records have the same address, and every record a
\* run creates has an address that had no record when the run started.
C2_NoDoubleAllocation ==
    /\ [](Cardinality(RecordedIPs(ipaddresses)) = Len(ipaddresses))
    /\ [][\A a \in NewIPs : a \notin RecordedIPs(ipaddresses)]_vars

\* C2 witness: two runs have allocated addresses in the same prefix.
C2_Witness ==
    \E i, j \in DOMAIN ipaddresses :
       /\ i < j
       /\ ipaddresses[i].interface # 0
       /\ ipaddresses[j].interface # 0
       /\ ipaddresses[i].address.prefixlen = 23
       /\ ipaddresses[j].address.prefixlen = 23

\* C4: every device has at most one interface named mgmt and the device of
\* the last run exactly one; a run appends the interface (mgmt_only, 1G
\* Ethernet fixed) only when the device has none, else it changes no
\* interface and logs the info entry; no interface is ever removed.
C4_SingleMgmtInterface ==
    /\ [](\A d \in DOMAIN devices :
            /\ Cardinality(mgmt_interfaces(d, interfaces)) <= 1
            /\ (lastrun.kind = "script" /\ lastrun.device = d)
               => Cardinality(mgmt_interfaces(d, interfaces)) = 1)
    /\ [][/\ SubSeq(interfaces', 1, Len(interfaces)) = interfaces
          /\ \A d \in DOMAIN devices :
                (nruns' = nruns + 1 /\ lastrun'.kind = "script"
                 /\ lastrun'.device = d)
                => LET exists_ == \E i \in DOMAIN interfaces :
                                     /\ interfaces[i].device = d
                                     /\ interfaces[i].name = "mgmt"
                       logged == \E i \in DOMAIN lastrun'.log :
                                    /\ lastrun'.log[i].level = "info"
                                    /\ lastrun'.log[i].message[1]
                                       = "mgmt already exists for device {}"
                   IN  IF exists_
                       THEN interfaces' = interfaces /\ logged
                       ELSE /\ interfaces' =
                                 Append(interfaces,
                                        [device |-> d, name |-> "mgmt",
                                         mgmt_only |-> TRUE,
                                         type |-> "IFACE_TYPE_1GE_FIXED"])
                            /\ ~logged]_vars

\* C4 witness: a run has found the mgmt interface that an earlier run made.
C4_Witness ==
    /\ lastrun.kind = "script"
    /\ lastrun.device # 2
    /\ \E i \in DOMAIN lastrun.log :
          lastrun.log[i].message[1] = "mgmt already exists for device {}"
    /\ Len(interfaces) > Len(ExistingInterfaces)

\* C5: for a fr-tech device with its management prefix, a run allocates the
\* lowest available address of the prefix, whichever /24 it lies in, and
\* nothing when no address is available.
C5_FrackTakesFirstAvailable ==
    [][\A d \in DOMAIN devices :
          (/\ AddIPStep(d)
           /\ devices[d].tenant = "fr-tech"
           /\ Cardinality(PrefixesFor(d)) = 1)
          => LET p == CHOOSE q \in PrefixesFor(d) : TRUE
                 available == get_available_ips(p, ipaddresses)
             IN  /\ Len(ipaddresses') <= Len(ipaddresses) + 1
                 /\ available # {} => NewIPs # {}
                 /\ \A a \in NewIPs :
                       /\ a \in available
                       /\ \A b \in available : a <= b]_vars

\* C5 witness: a run has allocated, for a fr-tech device, an address inside
\* the first /24 of its prefix.
C5_Witness ==
    /\ lastrun.kind = "script"
    /\ lastrun.add_ip
    /\ lastrun.output # <<>>
    /\ lastrun.output[1] = "Created ip {} for mgmt on device {}"
    /\ \E d \in DOMAIN devices :
          /\ lastrun.device = d
          /\ devices[d].tenant = "fr-tech"
          /\ \E p \in PrefixesFor(d) : InFirst24(lastrun.output[2], p)

\* C6: a run with add_ip on a device without management prefix for its site
\* and tenant logs one failure, "Can't find prefix ...", returns it, and
\* leaves the IPAddress table as it was.
C6_NoPrefixNoAllocation ==
    [][\A d \in DOMAIN devices :
          (AddIPStep(d) /\ PrefixesFor(d) = {})
          => /\ ipaddresses' = ipaddresses
             /\ FailedWith(lastrun', "Can't find prefix for site {} on device {}")]_vars

\* C6 witness: a run with add_ip has ended on a device without management
\* prefix.
C6_Witness ==
    /\ lastrun.kind = "script"
    /\ lastrun.add_ip
    /\ \E d \in DOMAIN devices : lastrun.device = d /\ PrefixesFor(d) = {}

\* Prefix p has no address a run for device d could take: none available at
\* all, or, for a device that is not fr-tech, none outside the first /24.
Exhausted(d, p, ips) ==
    \/ get_available_ips(p, ips) = {}
    \/ /\ devices[d].tenant # "fr-tech"
       /\ \A a \in get_available_ips(p, ips) : InFirst24(a, p)

\* C7: a run with add_ip on a device whose management prefix is exhausted
\* logs one failure, "Not enough IPs ...", returns it and creates no
\* IPAddress; and a prefix once exhausted stays exhausted.
C7_NotEnoughIPs ==
    [][\A d \in DOMAIN devices :
          /\ (/\ AddIPStep(d)
              /\ Cardinality(PrefixesFor(d)) = 1
              /\ \A p \in PrefixesFor(d) : Exhausted(d, p, ipaddresses))
             => /\ ipaddresses' = ipaddresses
                /\ FailedWith(lastrun', "Not enough IPs to allocate one on prefix {}")
          /\ \A p \in PrefixesFor(d) :
                Exhausted(d, p, ipaddresses) => Exhausted(d, p, ipaddresses')]_vars

\* ------------------------------------------------------------------------
\* Properties of OldHardwareReport
\* ------------------------------------------------------------------------

\* The purchase dates of device d: the values of its purchase_date fields.
PurchaseDatesOf(d) ==
    {customfieldvalues[c].value :
        c \in {c \in DOMAIN customfieldvalues :
                  /\ customfieldvalues[c].field = "purchase_date"
                  /\ customfieldvalues[c].obj_type = "device"
                  /\ customfieldvalues[c].obj_id = d}}

\* The devices the report is about.
OldHardwareScope ==
    {d \in DOMAIN devices :
        /\ devices[d].status \notin {"inventory", "offline"}
        /\ devices[d].device_role \notin {"cablemgmt", "storagebin"}}

\* The entries of a log about device d.
EntriesAbout(log, d) == {i \in DOMAIN log : log[i].obj = d}

\* C8: after test_hardware_age, every device in scope that has a purchase
\* date has no entry when its age in tenths of a year is below 45, one
\* warning 'almost old device' from 45 to 49 and one failure 'old device'
\* from 50 on; the final success entry counts the devices below 45.
C8_OutcomeByAge ==
    lastrun.name = "OldHardwareReport.test_hardware_age"
    => LET log == lastrun.log
           dated == {d \in OldHardwareScope : PurchaseDatesOf(d) # {}}
           age(d) == hardware_age(Today, CHOOSE v \in PurchaseDatesOf(d) : TRUE)
       IN  /\ \A d \in dated :
                 /\ age(d) < 45 => EntriesAbout(log, d) = {}
                 /\ (45 <= age(d) /\ age(d) < 50)
                    => /\ Cardinality(EntriesAbout(log, d)) = 1
                       /\ \A i \in EntriesAbout(log, d) :
                             /\ log[i].level = "warning"
                             /\ log[i].message[1]
                                = "almost old device with purchase date: {} (age: {:02.1f}y)"
                 /\ age(d) >= 50
                    => /\ Cardinality(EntriesAbout(log, d)) = 1
                       /\ \A i \in EntriesAbout(log, d) :
                             /\ log[i].level = "failure"
                             /\ log[i].message[1]
                                = "old device with purchase date: {} (age: {:02.1f}y)"
           /\ log[Len(log)].level = "success"
           /\ log[Len(log)].message[2]
              = Cardinality({d \in dated : age(d) < 45})

\* ------------------------------------------------------------------------
\* Properties of Coherence
\* ------------------------------------------------------------------------

\* The devices whose serials must be unique: outside the blacklisted sites,
\* not decommissioning or offline, not of a blacklisted role.
SerialScope ==
    {d \in DOMAIN devices :
        /\ devices[d].site \notin {"esams", "knams"}
        /\ devices[d].status \notin {"decommissioning", "offline"}
        /\ devices[d].device_role \notin {"cablemgmt", "storagebin", "optical-device"}}

\* The devices of that scope that share a non-empty serial with another one.
SharingSerial ==
    {d \in SerialScope :
        /\ devices[d].serial \notin {"", None}
        /\ \E e \in SerialScope : e # d /\ devices[e].serial = devices[d].serial}

\* C9: after test_duplicate_serials the log is the single success 'No
\* duplicate serials found' exactly when no two devices in scope share a
\* non-empty serial; otherwise it holds no success, holds exactly one
\* 'duplicate serial' failure for each device in scope that shares its
\* serial, and every failure is about a serial that two logged devices carry.
C9_DuplicateSerials ==
    lastrun.name = "Coherence.test_duplicate_serials"
    => LET log == lastrun.log
           successes == {i \in DOMAIN log : log[i].level = "success"}
       IN  IF SharingSerial = {}
           THEN /\ Len(log) = 1
                /\ log[1].level = "success"
                /\ log[1].message[1] = "No duplicate serials found"
           ELSE /\ successes = {}
                /\ \A d \in SharingSerial :
                      /\ Cardinality(EntriesAbout(log, d)) = 1
                      /\ \A i \in EntriesAbout(log, d) :
                            /\ log[i].level = "failure"
                            /\ log[i].message = <<"duplicate serial: {}",
                                                  devices[d].serial>>
                /\ \A i \in DOMAIN log :
                      /\ log[i].level = "failure"
                      /\ \E j, k \in DOMAIN log :
                            /\ log[j].obj # log[k].obj
                            /\ devices[log[j].obj].serial = log[i].message[2]
                            /\ devices[log[k].obj].serial = log[i].message[2]

\* C9 witness: the report has logged failures, one of them about a device of
\* a blacklisted role that carries a serial two devices in scope share.
C9_Witness ==
    /\ lastrun.name = "Coherence.test_duplicate_serials"
    /\ SharingSerial # {}
    /\ \E i \in DOMAIN lastrun.log :
          /\ lastrun.log[i].level = "failure"
          /\ devices[lastrun.log[i].obj].device_role = "cablemgmt"

\* ------------------------------------------------------------------------
\* Properties of Cables
\* ------------------------------------------------------------------------

\* The positions of a label that hold something other than a blank.
Inked(label) == {i \in DOMAIN label : label[i] # " "}

\* The label between its first and its last character that is not a blank.
Core(label) ==
    LET first == CHOOSE i \in Inked(label) : \A j \in Inked(label) : i <= j
        last == CHOOSE i \in Inked(label) : \A j \in Inked(label) : j <= i
    IN  SubSeq(label, first, last)

\* The cables with both terminations and a label that is not blank.
LabelScope ==
    {c \in DOMAIN cables :
        /\ cables[c].label # <<None>>
        /\ Inked(cables[c].label) # {}
        /\ cables[c].termination_a_id # 0
        /\ cables[c].termination_b_id # 0}

\* The site slug of termination A: its own for a circuit termination, its
\* device's otherwise, "none" when there is neither.
SiteOfCable(c) ==
    LET a == cables[c].termination_a
    IN  IF cables[c].termination_a_type = "circuit termination"
        THEN a.site
        ELSE IF a.device = 0 THEN "none" ELSE devices[a.device].site

SameLabelAndSite(c) ==
    {e \in LabelScope \ {c} :
        /\ Core(cables[e].label) = Core(cables[c].label)
        /\ SiteOfCable(e) = SiteOfCable(c)}

\* C10: after test_duplicate_cable_label a cable has a 'duplicate cable
\* label' failure exactly when it has both terminations and a non-blank
\* label and another such cable has the same stripped label and the same
\* site slug (so the same label at two sites is not flagged), it has at
\* most one, and the one success entry counts the (label, site) pairs that
\* exactly one cable carries.
C10_DuplicateCableLabel ==
    lastrun.name = "Cables.test_duplicate_cable_label"
    => LET log == lastrun.log
           unique == {c \in LabelScope : SameLabelAndSite(c) = {}}
       IN  /\ \A c \in DOMAIN cables :
                 /\ EntriesAbout(log, c) # {}
                    <=> (c \in LabelScope /\ SameLabelAndSite(c) # {})
                 /\ Cardinality(EntriesAbout(log, c)) <= 1
                 /\ \A i \in EntriesAbout(log, c) :
                       /\ log[i].level = "failure"
                       /\ log[i].message = <<"duplicate cable label (site {})",
                                             SiteOfCable(c)>>
           /\ {i \in DOMAIN log : log[i].level = "success"} = {Len(log)}
           /\ log[Len(log)].message =
                 <<"{} non-duplicate cable labels.", Cardinality(unique)>>

\* C10 witness: the report flagged two cables whose stored labels differ
\* only in blanks, and left unflagged a cable with the same stripped label
\* at another site.
C10_Witness ==
    /\ lastrun.name = "Cables.test_duplicate_cable_label"
    /\ \E c, e, f \in LabelScope :
          /\ cables[c].label # cables[e].label
          /\ e \in SameLabelAndSite(c)
          /\ EntriesAbout(lastrun.log, c) # {}
          /\ EntriesAbout(lastrun.log, e) # {}
          /\ Core(cables[f].label) = Core(cables[c].label)
          /\ SiteOfCable(f) # SiteOfCable(c)
          /\ EntriesAbout(lastrun.log, f) = {}

\* ------------------------------------------------------------------------
\* Properties of the reports as a whole
\* ------------------------------------------------------------------------

\* The levels of Report.log_success, log_info, log_warning, log_failure.
LogLevels == {"success", "info", "warning", "failure"}

\* C3: a step in which a report's test method runs leaves every table
\* (devices, inventory items, interfaces, cables, IP addresses, virtual
\* machines, custom field values, ports) as it was and leaves only log
\* entries; a step that changes a table is a run of
\* CreateManagementInterface.
C3_ReportsAreReadOnly ==
    [][ /\ lastrun'.kind = "report"
           => /\ devices' = devices
              /\ inventoryitems' = inventoryitems
              /\ interfaces' = interfaces
              /\ cables' = cables
              /\ ipaddresses' = ipaddresses
              /\ virtualmachines' = virtualmachines
              /\ customfieldvalues' = customfieldvalues
              /\ ports' = ports
              /\ \A i \in DOMAIN lastrun'.log :
                    lastrun'.log[i].level \in LogLevels
        /\ ( \/ devices' # devices
             \/ inventoryitems' # inventoryitems
             \/ interfaces' # interfaces
             \/ cables' # cables
             \/ ipaddresses' # ipaddresses
             \/ virtualmachines' # virtualmachines
             \/ customfieldvalues' # customfieldvalues
             \/ ports' # ports )
           => /\ lastrun'.kind = "script"
              /\ lastrun'.name = "CreateManagementInterface" ]_vars

\* C3 witness: a report has run, and logged failures, on tables in which
\* the script had created an interface and an IP address before.
C3_Witness ==
    /\ lastrun.kind = "report"
    /\ \E i \in DOMAIN lastrun.log : lastrun.log[i].level = "failure"
    /\ Len(interfaces) > 4
    /\ Len(ipaddresses) > 3
    /\ nruns = 3

\* ------------------------------------------------------------------------
\* Properties of the PuppetDB parity tests
\* ------------------------------------------------------------------------

\* The tenant-less server-role devices of that name whose status is one of
\* the given ones.
ParityDevices(name, statuses) ==
    {d \in DOMAIN devices :
        /\ devices[d].name = name
        /\ devices[d].device_role = "server"
        /\ devices[d].tenant = None
        /\ devices[d].status \in statuses}

AllStatuses ==
    {"active", "staged", "failed", "inventory", "offline", "planned",
     "decommissioning"}

\* The entries of the log of test_puppetdb_in_netbox that are about a host
\* of PuppetDB: those on the device of that name, and the one naming it.
EntriesAboutHost(log, host) ==
    {i \in DOMAIN log :
        \/ log[i].obj # 0 /\ devices[log[i].obj].name = host
        \/ /\ log[i].obj = 0
           /\ log[i].level # "success"
           /\ log[i].message[2] = host}

C13_SoftStatusesOnlyWarn ==
    lastrun.name = "puppetdbserials.PuppetDB.test_netbox_in_puppetdb"
    => LET log == lastrun.log
           hosts == lastrun.loaded
           scope == {d \in DOMAIN devices :
                        /\ devices[d].device_role = "server"
                        /\ devices[d].tenant \notin {"fundraising-tech", "ripe"}}
           missing == {d \in scope :
                          \A i \in DOMAIN hosts : hosts[i].key # devices[d].name}
           soft(d) == devices[d].status \in {"inventory", "offline", "planned"}
       IN  /\ \A d \in DOMAIN devices :
                 IF d \notin missing
                 THEN EntriesAbout(log, d) = {}
                 ELSE /\ Cardinality(EntriesAbout(log, d)) = 1
                      /\ \A k \in EntriesAbout(log, d) :
                            log[k].level = IF soft(d) THEN "warning" ELSE "failure"
           /\ \A k, l \in DOMAIN log :
                 log[k].level = "failure" /\ log[l].level = "warning" => k < l
           /\ Len(log) = Cardinality(missing) + 1
           /\ log[Len(log)].level = "info"

\* C13 witness: a run that logged a warning on a device the queryset
\* yields before a device it logged a failure on, and two warnings.
C13_Witness ==
    /\ lastrun.name = "puppetdbserials.PuppetDB.test_netbox_in_puppetdb"
    /\ \E k, l \in DOMAIN lastrun.log :
          /\ lastrun.log[k].level = "warning"
          /\ lastrun.log[l].level = "failure"
          /\ lastrun.log[k].obj < lastrun.log[l].obj
    /\ Cardinality({k \in DOMAIN lastrun.log :
                       lastrun.log[k].level = "warning"}) = 2

\* ------------------------------------------------------------------------
\* Properties of Juniper.test_consistency
\* ------------------------------------------------------------------------

\* The Juniper devices, and the Juniper inventory items, of a serial.
JuniperDevicesOf(serial) ==
    {d \in DOMAIN devices :
        devices[d].manufacturer = "juniper" /\ devices[d].serial = serial}

JuniperItemsOf(serial) ==
    {t \in DOMAIN inventoryitems :
        /\ inventoryitems[t].manufacturer = "juniper"
        /\ inventoryitems[t].serial = serial}

\* The entries of a log whose message has the given text.
EntriesSaying(log, text) == {k \in DOMAIN log : log[k].message[1] = text}

\* C14: after Juniper.test_consistency every asset of the installed base
\* was handled once.  The failure 'not present in Netbox' is there, once,
\* exactly for the assets whose serial is neither that of a Juniper device
\* nor that of a Juniper inventory item, and serial_matches plus these
\* failures is the number of assets.  The city and support checks ran for
\* the assets matched to a device and for no other: matches plus failures
\* of each check are the number of those assets.  'Support missing' is
\* logged, once and on a device of that serial, exactly when the device's
\* status is not offline or decommissioning, the asset's status is not
\* 'Active' and its contract end date is not empty.
C14_JuniperConsistency ==
    lastrun.name = "Juniper.test_consistency"
    => LET log == lastrun.log
           base == lastrun.loaded.items
           counters == IF log # <<>> /\ log[Len(log)].level = "success"
                       THEN log[Len(log)].message
                       ELSE <<"", 0, 0, 0>>
           serial_matches == counters[2]
           address_matches == counters[3]
           support_matches == counters[4]
           absent == {i \in DOMAIN base :
                         /\ JuniperDevicesOf(base[i].key) = {}
                         /\ JuniperItemsOf(base[i].key) = {}}
           on_device == {i \in DOMAIN base : JuniperDevicesOf(base[i].key) # {}}
           not_present == EntriesSaying(log,
                              "Device {name} with s/n {serial} not present in Netbox")
           city == EntriesSaying(log,
                       "City missmatch: {city} (Juniper) vs. {netbox_address} (Netbox)")
           support == EntriesSaying(log, "Support missing, ended on: {support_end_date}")
           lapsed(asset) == asset.status # "Active" /\ asset.contract_end_date # ""
           ignored(d) == devices[d].status \in {"offline", "decommissioning"}
       IN  /\ \A i \in DOMAIN base :
                 Cardinality({k \in not_present : log[k].message[3] = base[i].key})
                 = IF i \in absent THEN 1 ELSE 0
           /\ Cardinality(not_present) = Cardinality(absent)
           /\ serial_matches + Cardinality(not_present) = Len(base)
           /\ address_matches + Cardinality(city) = Cardinality(on_device)
           /\ support_matches + Cardinality(support) = Cardinality(on_device)
           /\ \A k \in city \cup support :
                 \E i \in on_device : log[k].obj \in JuniperDevicesOf(base[i].key)
           /\ \A i \in DOMAIN base :
                 LET of_asset == {k \in support :
                                     log[k].obj \in JuniperDevicesOf(base[i].key)}
                 IN  /\ Cardinality(of_asset) <= 1
                     /\ \A k \in of_asset :
                           ~ignored(log[k].obj) /\ lapsed(base[i].value)
                     /\ ( /\ i \in on_device
                          /\ lapsed(base[i].value)
                          /\ \A d \in JuniperDevicesOf(base[i].key) : ~ignored(d) )
                        => of_asset # {}

\* C14 witness: a run on an installed base of which one asset is not in
\* Netbox, one is matched to an inventory item only and one to a device
\* whose support is missing, no two devices sharing a serial; three of the
\* four assets matched.
C14_Witness ==
    /\ lastrun.name = "Juniper.test_consistency"
    /\ EntriesSaying(lastrun.log,
                     "Device {name} with s/n {serial} not present in Netbox") # {}
    /\ EntriesSaying(lastrun.log, "Support missing, ended on: {support_end_date}") # {}
    /\ \E i \in DOMAIN lastrun.loaded.items :
          /\ JuniperDevicesOf(lastrun.loaded.items[i].key) = {}
          /\ JuniperItemsOf(lastrun.loaded.items[i].key) # {}
    /\ \A i \in DOMAIN lastrun.loaded.items :
          Cardinality(JuniperDevicesOf(lastrun.loaded.items[i].key)) <= 1
    /\ lastrun.log[Len(lastrun.log)].level = "success"
    /\ lastrun.log[Len(lastrun.log)].message[2] = 3

\* ------------------------------------------------------------------------
\* Properties of interleaved runs of the script
\* ------------------------------------------------------------------------

\* C15: whatever the order in which runs of CreateManagementInterface read
\* the available addresses of a prefix and save their IPAddress, two runs
\* that have both read before either saved included, no two IPAddress
\* records have the same address.
C15_InterleavedRunsNoDoubleAllocation ==
    \A i, j \in DOMAIN ipaddresses :
       i # j => ipaddresses[i].address.ip # ipaddresses[j].address.ip

====
